---- MODULE Spec2Model ----
(***************************************************************************)
(* A model of the entity / component / scene core of the ChickenDodge      *)
(* engine (client/dist/merged.js): the entity tree (Entity), two-phase     *)
(* component construction (Entity.addComponent, Scene.refresh), the tree   *)
(* walk (Scene.walk) and the frame loop over the three systems (main).     *)
(*                                                                         *)
(* The specifications share the variables:                                 *)
(*   SpecTree       the Entity API called in any order on a pool of        *)
(*                  entities                                               *)
(*   SpecWalk       a scene built by createChild, with Scene.walk          *)
(*   SpecFind       a scene built by createChild, with Scene.findObject    *)
(*   SpecWalkAsync  Scene.walk as the promise chain it is                  *)
(*   Spec           a scene loaded from a description and run by the frame *)
(*                  loop                                                   *)
(*   SpecLive       Spec, every setup settling                             *)
(*   SpecLoop       Spec, every awaited promise settling and the display   *)
(*                  refreshing                                             *)
(*   SpecReject     Spec, a setup may reject                               *)
(*   SpecCallReject Spec, an update, display or render may reject          *)
(*   SpecComp       the component API of Entity and Component called in    *)
(*                  any order                                              *)
(*   SpecLogic      Spec, the updates enabling and disabling components    *)
(*   SpecClock      Utils.loop with the timestamps of the display refreshes *)
(*   SpecRef        a scene of two siblings whose components look each     *)
(*                  other up by dotted name in setup                       *)
(*   SpecDetach     Spec, an update detaching an entity                    *)
(*   SpecLayer      a tree with components, with LayerComponent.listSprites *)
(*   SpecTrigger    an EnablerComponent registering targets and triggering *)
(*                  its EventTrigger                                       *)
(*   SpecGame       the players' lives, collisions and the referee         *)
(*   SpecDraw       the index data a LayerComponent hands to drawElements  *)
(***************************************************************************)
EXTENDS Integers, Sequences, FiniteSets, TLC

\* ------------------------------------------------------------------ bounds
NumEnt == 4
MaxEnt == 3
MaxAdds == 3
NumComp == 2
MaxFrame == 2
MaxTasks == 1
MaxTime == 7
MaxTicks == 3
TimeStep == 20
NumPlayers == 2
MaxLife == 2
MaxHandlers == 3
MaxHits == 2
MaxWins == 2
SmallSprites == 50
MaxSprites == 16385

\* --------------------------------------------------------------- constants
\* `null`, the value of Entity.parent of an unattached entity.
Null == -1
\* Scene.root, the first entity constructed.
Root == 0

\* `undefined`, what Map.get answers for a component type that is not set.
NoComp == 0

Ent == 0 .. (NumEnt - 1)
Names == {"a", "b"}
Comp == 1 .. NumComp
Task == 0 .. MaxTasks

\* The component types of the model, two of the registered ones.
Types == {"Sprite", "Camera"}

\* The players the referee watches (descr.players).
Players == 1 .. NumPlayers

\* The upper bound of Utils.loop's clamp: 0.1 s, in milliseconds.
MaxDelta == 100

\* The timestamps a display refresh may deliver (ms): multiples of TimeStep.
Times == {TimeStep * i : i \in 0 .. MaxTime}

\* `undefined`, what Map.get answers for a missing key.
NoEntry == [name |-> "", order |-> -1, child |-> Null]

VARIABLES
    active,             \* Entity.active
    parent,             \* Entity.parent
    children,           \* Entity.children: a Set of child entries
    childrenByName,     \* Entity.childrenByName: Map name -> entry
    childrenByChild,    \* Entity.childrenByChild: Map child -> entry
    nextChildOrder,     \* Entity.nextChildOrder
    alloc,              \* the entities constructed so far (new Entity())
    lastOp,             \* the last call made on the API and what it answered
    components,         \* Entity.components: Map type -> component, in key order
    owner,              \* Component.owner (Null: not constructed)
    ctype,              \* Component.__type
    enabled,            \* Component._enabled
    created,            \* the state of the promise of Component.create
    compDescr,          \* Scene.compDescr: the components waiting for setup
    setupCalls,         \* how many times setup was called on each component
    passes,             \* the Promise.all of each setupMissing in progress
    tasks,              \* the createChildren / createChild chains in progress
    pc,                 \* where launchGame / Utils.loop stands
    sys,                \* the index in `systems` of the system iterating
    stage,              \* whether that system's iterate has been called yet
    frame,              \* the number of calls of Utils.loop
    frameCount,         \* LogicSystem.frameCount
    dispQ,              \* DisplaySystem.iterate: the calls still chained
    calls,              \* the update / display / render calls in flight
    walkMode,           \* Scene.walk in progress: "none", "active" (onlyActive) or "all"
    walkStack,          \* the walkRecursive chains that still have children to visit
    walkCalls,          \* the entities whose fn(c, k) promise is pending
    walkLog,            \* the calls fn(c, k) of the walk in progress, in call order
    lastTime,           \* Utils: `let lastTime`, the time of the last call of loop (ms)
    delta,              \* Utils.loop: `const delta` of the call in progress (ms)
    handlers,           \* EventTrigger.handlers of EnablerComponent.eventTargets, in key order
    autoIndex,          \* EventTrigger.autoIndex of the same trigger
    lifeValue,          \* LifeComponent._value of each player
    isDead,             \* PlayerComponent.isDead of each player
    isInvulnerable,     \* PlayerComponent.isInvulnerable of each player
    colliderEnabled,    \* the enabled flag of each player's ColliderComponent
    winTriggers         \* how many times RefereeComponent.winEvent was triggered

treeVars == <<active, parent, children, childrenByName, childrenByChild, nextChildOrder>>
compVars == <<components, owner, ctype, enabled, created>>
queueVars == <<compDescr, setupCalls, passes>>
loopVars == <<pc, sys, stage, frame, frameCount, dispQ, calls>>
walkVars == <<walkMode, walkStack, walkCalls, walkLog>>
clockVars == <<lastTime, delta>>
gameVars == <<handlers, autoIndex, lifeValue, isDead, isInvulnerable, colliderEnabled, winTriggers>>
sceneVars == <<components, owner, ctype, enabled, created, compDescr, setupCalls, passes, tasks, pc, sys, stage, frame, frameCount, dispQ, calls, walkMode, walkStack, walkCalls, walkLog, lastTime, delta, handlers, autoIndex, lifeValue, isDead, isInvulnerable, colliderEnabled, winTriggers>>
vars == <<active, parent, children, childrenByName, childrenByChild, nextChildOrder, alloc, lastOp, components, owner, ctype, enabled, created, compDescr, setupCalls, passes, tasks, pc, sys, stage, frame, frameCount, dispQ, calls, walkMode, walkStack, walkCalls, walkLog, lastTime, delta, handlers, autoIndex, lifeValue, isDead, isInvulnerable, colliderEnabled, winTriggers>>

\* ------------------------------------------------------------------ Entity

\* The call record kept in lastOp: the operation, whether it returned normally
\* (FALSE: it threw), and the sequence of entities it answered or visited.
Call(op, ok, out) == [op |-> op, ok |-> ok, out |-> out]

\* The entity the next `new Entity()` constructs: the pool is used in order.
NewEntity == CHOOSE e \in Ent \ alloc : \A x \in Ent \ alloc : e <= x

\* new Entity(): the fields of a freshly constructed entity.
EntityInit ==
    /\ active = [e \in Ent |-> TRUE]
    /\ parent = [e \in Ent |-> Null]
    /\ children = [e \in Ent |-> {}]
    /\ childrenByName = [e \in Ent |-> [n \in Names |-> NoEntry]]
    /\ childrenByChild = [e \in Ent |-> [c \in Ent |-> NoEntry]]
    /\ nextChildOrder = [e \in Ent |-> 0]

\* Entity.getChild(objectName): the child of the indexed entry, or undefined.
getChild(e, name) == childrenByName[e][name].child

\* Mutant: the check compares the child's parent with the receiver only.
AddChildThrowsSameParent(e, c) == parent[c] = e

\* Entity.addChild: `if (child.parent) throw`.
AddChildThrows(e, c) == parent[c] # Null

\* Entity.addChild: the entry built for the new child (order: nextChildOrder++).
ChildEntry(e, name, c) == [name |-> name, order |-> nextChildOrder[e], child |-> c]

\* Mutant: a name that is already indexed keeps its first entry.
ByNameAfterAddKeepFirst(e, name, entry) ==
    IF childrenByName[e][name] = NoEntry
    THEN [childrenByName[e] EXCEPT ![name] = entry]
    ELSE childrenByName[e]

\* Entity.addChild: this.childrenByName.set(objectName, childEntry).
ByNameAfterAdd(e, name, entry) == [childrenByName[e] EXCEPT ![name] = entry]

\* Entity.addChild, the part after the check.
DoAddChild(e, name, c) ==
    LET entry == ChildEntry(e, name, c) IN
    /\ nextChildOrder' = [nextChildOrder EXCEPT ![e] = @ + 1]
    /\ children' = [children EXCEPT ![e] = @ \cup {entry}]
    /\ childrenByName' = [childrenByName EXCEPT ![e] = ByNameAfterAdd(e, name, entry)]
    /\ childrenByChild' = [childrenByChild EXCEPT ![e] = [@ EXCEPT ![c] = entry]]
    /\ parent' = [parent EXCEPT ![c] = e]
    /\ UNCHANGED active

\* Entity.removeChild: `if (child.parent !== this) throw`.
RemoveChildThrows(e, c) == parent[c] # e

\* Entity.removeChild: the name index loses the name only when it holds this entry.
ByNameAfterRemove(e, entry) ==
    IF childrenByName[e][entry.name] = entry
    THEN [childrenByName[e] EXCEPT ![entry.name] = NoEntry]
    ELSE childrenByName[e]

\* Mutant: the entry stays in the children set.
DoRemoveChildKeepsEntry(e, c) ==
    LET entry == childrenByChild[e][c] IN
    /\ childrenByChild' = [childrenByChild EXCEPT ![e] = [@ EXCEPT ![c] = NoEntry]]
    /\ childrenByName' = [childrenByName EXCEPT ![e] = ByNameAfterRemove(e, entry)]
    /\ parent' = [parent EXCEPT ![c] = Null]
    /\ UNCHANGED <<active, nextChildOrder, children>>

\* Mutant: the back-reference of the removed child is not cleared.
DoRemoveChildKeepsParent(e, c) ==
    LET entry == childrenByChild[e][c] IN
    /\ childrenByChild' = [childrenByChild EXCEPT ![e] = [@ EXCEPT ![c] = NoEntry]]
    /\ childrenByName' = [childrenByName EXCEPT ![e] = ByNameAfterRemove(e, entry)]
    /\ children' = [children EXCEPT ![e] = @ \ {entry}]
    /\ UNCHANGED <<active, nextChildOrder, parent>>

\* Entity.removeChild, the part after the check.
DoRemoveChild(e, c) ==
    LET entry == childrenByChild[e][c] IN
    /\ childrenByChild' = [childrenByChild EXCEPT ![e] = [@ EXCEPT ![c] = NoEntry]]
    /\ childrenByName' = [childrenByName EXCEPT ![e] = ByNameAfterRemove(e, entry)]
    /\ children' = [children EXCEPT ![e] = @ \ {entry}]
    /\ parent' = [parent EXCEPT ![c] = Null]
    /\ UNCHANGED <<active, nextChildOrder>>

\* Mutant: the comparator is reversed (b.order - a.order).
RECURSIVE SortByOrderDescending(_)
SortByOrderDescending(S) ==
    IF S = {} THEN <<>>
    ELSE LET first == CHOOSE x \in S : \A y \in S : x.order >= y.order
         IN <<first>> \o SortByOrderDescending(S \ {first})

\* Array.prototype.sort((a, b) => a.order - b.order) over a set of entries.
RECURSIVE SortByOrder(_)
SortByOrder(S) ==
    IF S = {} THEN <<>>
    ELSE LET first == CHOOSE x \in S : \A y \in S : x.order <= y.order
         IN <<first>> \o SortByOrder(S \ {first})

\* The number of successful addChild calls made so far, over all entities.
RECURSIVE SumOrders(_)
SumOrders(S) ==
    IF S = {} THEN 0
    ELSE LET e == CHOOSE x \in S : TRUE IN nextChildOrder[e] + SumOrders(S \ {e})

\* Entity.walkChildren: the entries in the order fn is called on them.
walkChildren(e) == SortByOrder(children[e])

\* The children of the entries, in the order walkChildren visits them.
ChildSeq(e) == [i \in 1 .. Len(walkChildren(e)) |-> walkChildren(e)[i].child]

\* -------------------------------------------------------------- Scene.walk

\* Scene.walkRecursive: the entities fn is called on, in call order.  fn is
\* called on each child of `entity` and the recursion then tests the child's
\* `active`; nothing is visited below an entity the test rejects.
RECURSIVE walkRecursive(_, _)
RECURSIVE walkEntries(_, _)
walkEntries(entries, onlyActive) ==
    IF entries = <<>> THEN <<>>
    ELSE <<Head(entries).child>>
           \o walkRecursive(Head(entries).child, onlyActive)
           \o walkEntries(Tail(entries), onlyActive)
walkRecursive(entity, onlyActive) ==
    IF onlyActive /\ ~active[entity] THEN <<>>
    ELSE walkEntries(walkChildren(entity), onlyActive)

\* Scene.walk(fn, onlyActive): the traversal starts below the root.
walk(onlyActive) == walkRecursive(Root, onlyActive)

\* -------------------------------------------------------- Scene.findObject

\* Mutant: the children's subtrees are searched before the entity's own name
\* index is consulted.
RECURSIVE findObjectDepthFirst(_, _)
RECURSIVE findInDepthFirst(_, _)
findInDepthFirst(entries, objectName) ==
    IF entries = <<>> THEN Null
    ELSE IF Head(entries).name = objectName THEN Head(entries).child
    ELSE LET found == findObjectDepthFirst(Head(entries).child, objectName)
         IN IF found # Null THEN found
            ELSE findInDepthFirst(Tail(entries), objectName)
findObjectDepthFirst(par, objectName) ==
    findInDepthFirst(walkChildren(par), objectName)

\* Scene.findObjectRecursive: the name index of `par` first, then the children
\* in walkChildren order, stopping at the first one that answers an entity.
RECURSIVE findObjectRecursive(_, _)
RECURSIVE findInChildren(_, _)
findInChildren(entries, objectName) ==
    IF entries = <<>> THEN Null
    ELSE LET found == findObjectRecursive(Head(entries).child, objectName)
         IN IF found # Null THEN found
            ELSE findInChildren(Tail(entries), objectName)
findObjectRecursive(par, objectName) ==
    IF getChild(par, objectName) # Null
    THEN getChild(par, objectName)
    ELSE findInChildren(walkChildren(par), objectName)

\* Scene.findObject(objectName)
findObject(objectName) == findObjectRecursive(Root, objectName)

\* --------------------------------------------------- components and scene

\* isLogicComponent(arg): the component has an update method.
isLogicComponent(t) == t = "Sprite"

\* isDisplayComponent(arg): the component has a display method.
isDisplayComponent(t) == t = "Sprite"

\* isCameraComponent(arg): the component has a render method.
isCameraComponent(t) == t = "Camera"

\* main.setupSystem: systems = [sceneMgr, display, logic].
systems == <<"sceneMgr", "display", "logic">>

\* A node of a scene description: its name, its `children` and the keys of its
\* `components`, both in the order Object.keys lists them.
Node(name, kids, comps) == [name |-> name, children |-> kids, components |-> comps]

\* The scene descriptions given to Scene.create.
Descriptions ==
    { <<Node("a", <<>>, <<"Sprite">>)>>,
      <<Node("a", <<>>, <<"Sprite", "Camera">>)>>,
      <<Node("a", <<Node("b", <<>>, <<"Sprite">>)>>, <<"Camera">>)>> }

\* new Component(owner): the fields of the components not constructed yet.
ComponentInit ==
    /\ components = [e \in Ent |-> <<>>]
    /\ owner = [c \in Comp |-> Null]
    /\ ctype = [c \in Comp |-> ""]
    /\ enabled = [c \in Comp |-> TRUE]
    /\ created = [c \in Comp |-> "none"]

\* Whether the pool still holds a component to construct.
FreeComp == \E c \in Comp : owner[c] = Null

\* The component ComponentFactory.create constructs next: the pool is used in order.
NewComp == CHOOSE c \in Comp : owner[c] = Null /\ \A x \in Comp : owner[x] = Null => c <= x

\* Mutant: a key that is set keeps its value.
MapSetKeepFirst(m, type, c) ==
    IF \E i \in 1 .. Len(m) : m[i].type = type
    THEN m
    ELSE Append(m, [type |-> type, comp |-> c])

\* Map.set(type, comp): a key that is set keeps its place, a new key goes last.
MapSet(m, type, c) ==
    IF \E i \in 1 .. Len(m) : m[i].type = type
    THEN [i \in 1 .. Len(m) |-> IF m[i].type = type THEN [type |-> type, comp |-> c] ELSE m[i]]
    ELSE Append(m, [type |-> type, comp |-> c])

\* Entity.getComponent(type)
getComponent(e, type) ==
    LET hits == {i \in 1 .. Len(components[e]) : components[e][i].type = type}
    IN IF hits = {} THEN NoComp ELSE components[e][CHOOSE i \in hits : TRUE].comp

\* Component `set enabled(val)`: the flag after the assignment.
EnabledAfter(en, c, val) == [en EXCEPT ![c] = val]

\* Mutant: the component is queued for setup when it is attached.
QueueAtAttach(c) == compDescr \cup {c}

\* Entity.addComponent up to the call of create: the scene's queue is not touched.
QueueAfterAttach(c) == compDescr

\* Scene.onComponentCreated(comp, descr), called once create has resolved.
QueueAfterCreate(c) == compDescr \cup {c}

\* Entity.addComponent up to the call of create: the component is constructed,
\* stored under its type, and its create is called.
AttachComponent(e, type, c) ==
    /\ owner' = [owner EXCEPT ![c] = e]
    /\ ctype' = [ctype EXCEPT ![c] = type]
    /\ components' = [components EXCEPT ![e] = MapSet(@, type, c)]
    /\ created' = [created EXCEPT ![c] = "pending"]
    /\ compDescr' = QueueAfterAttach(c)
    /\ UNCHANGED enabled

\* One level of the recursion of Scene.createChildren / createChild: the entity
\* being built, its declared children still to build, its components still to add.
Frame(e, kids, comps) == [e |-> e, kids |-> kids, comps |-> comps]

\* A chain in which nothing is left to do.
IdleTask == [stack |-> <<>>, wait |-> NoComp]

\* createChild resolves (`p.then(() => newObj)`) once nothing is left for its
\* entity, and the chain of the caller goes on.
RECURSIVE Unwind(_)
Unwind(stack) ==
    IF stack # <<>> /\ Head(stack).kids = <<>> /\ Head(stack).comps = <<>>
    THEN Unwind(Tail(stack))
    ELSE stack

\* Whether a setup of c is in flight, in any pass.
InSetup(c) == \E i \in 1 .. Len(passes) : c \in passes[i].pending

\* The sequence s without its i-th element.
RemoveAt(s, i) == [j \in 1 .. (Len(s) - 1) |-> IF j < i THEN s[j] ELSE s[j + 1]]

\* Mutant: refresh makes one pass only; the continuation of a pass starts no
\* other pass.
RefreshOnce(queue, running, awaited, fr) ==
    IF queue = {} \/ ~awaited THEN running
    ELSE Append(running, [pending |-> queue, awaited |-> awaited, frame |-> fr, failed |-> FALSE])

\* Scene.refresh / refreshLoop / setupMissing: with a queue that is not empty,
\* setup is called on every queued component and a Promise.all waits for them
\* (`running` with one more pass); with an empty queue refresh answers null.
Refresh(queue, running, awaited, fr) ==
    IF queue = {} THEN running
    ELSE Append(running, [pending |-> queue, awaited |-> awaited, frame |-> fr, failed |-> FALSE])

\* setupMissing: the setup calls one refresh of `queue` makes.
SetupCallsAfter(queue) == [c \in Comp |-> IF c \in queue THEN setupCalls[c] + 1 ELSE setupCalls[c]]

\* main.iterate: the iterate of the current system has resolved; the next
\* system's iterate is called, and after the last one Utils.loop waits for the
\* next display refresh.
Advance ==
    IF sys < Len(systems)
    THEN /\ pc' = pc /\ sys' = sys + 1 /\ stage' = "start"
    ELSE /\ pc' = "raf" /\ sys' = 0 /\ stage' = "idle"

\* The [type, component] pairs of the entities in `ents`, entity by entity, each
\* in the order walkComponent (Map.forEach) gives them.
RECURSIVE ComponentsOf(_)
ComponentsOf(ents) ==
    IF ents = <<>> THEN <<>>
    ELSE components[Head(ents)] \o ComponentsOf(Tail(ents))

\* LogicSystem.walkFn over Scene.walk: the enabled components that have update.
LogicList ==
    SelectSeq(ComponentsOf(walk(TRUE)), LAMBDA k : isLogicComponent(k.type) /\ enabled[k.comp])

\* DisplaySystem.walkFn over Scene.walk: displayComp.
DisplayList ==
    SelectSeq(ComponentsOf(walk(TRUE)), LAMBDA k : isDisplayComponent(k.type) /\ enabled[k.comp])

\* DisplaySystem.walkFn over Scene.walk: cameraComp.
CameraList ==
    SelectSeq(ComponentsOf(walk(TRUE)), LAMBDA k : isCameraComponent(k.type) /\ enabled[k.comp])

\* A call of `method` on component c.
CallOf(c, method) == [comp |-> c, method |-> method]

\* Mutant: the render calls are chained before the display calls.
DisplayChainCamerasFirst ==
    [i \in 1 .. Len(CameraList) |-> CallOf(CameraList[i].comp, "render")]
      \o [i \in 1 .. Len(DisplayList) |-> CallOf(DisplayList[i].comp, "display")]

\* DisplaySystem.iterate: the chain p, display calls first, then render calls.
DisplayChain ==
    [i \in 1 .. Len(DisplayList) |-> CallOf(DisplayList[i].comp, "display")]
      \o [i \in 1 .. Len(CameraList) |-> CallOf(CameraList[i].comp, "render")]

\* No Scene.walk is in progress.
WalkIdle ==
    /\ walkMode = "none"
    /\ walkStack = <<>>
    /\ walkCalls = {}
    /\ walkLog = <<>>

\* Utils: `let lastTime = 0`; no call of loop is in progress.
ClockInit ==
    /\ lastTime = 0
    /\ delta = 0

\* No handler is registered, every player has all its lives and none is dead,
\* and the win event was never triggered.
GameIdle ==
    /\ handlers = <<>>
    /\ autoIndex = 0
    /\ lifeValue = [p \in Players |-> MaxLife]
    /\ isDead = [p \in Players |-> FALSE]
    /\ isInvulnerable = [p \in Players |-> FALSE]
    /\ colliderEnabled = [p \in Players |-> TRUE]
    /\ winTriggers = 0

\* No scene is loaded and no loop runs (the state SpecTree keeps).
SceneIdle ==
    /\ WalkIdle
    /\ ClockInit
    /\ GameIdle
    /\ ComponentInit
    /\ compDescr = {}
    /\ setupCalls = [c \in Comp |-> 0]
    /\ passes = <<>>
    /\ tasks = [t \in Task |-> IdleTask]
    /\ pc = "none" /\ sys = 0 /\ stage = "idle"
    /\ frame = 0 /\ frameCount = 0
    /\ dispQ = <<>> /\ calls = {}

\* ----------------------------------------------------- actions of SpecTree

\* new Entity()
Construct ==
    /\ Cardinality(alloc) < MaxEnt
    /\ alloc' = alloc \cup {NewEntity}
    /\ lastOp' = Call("new", TRUE, <<NewEntity>>)
    /\ UNCHANGED <<treeVars, sceneVars>>

\* Mutant: the order index is taken before the parent check.
AddChildCountsFirst(e, name, c) ==
    /\ UNCHANGED <<alloc, sceneVars>>
    /\ SumOrders(Ent) < MaxAdds
    /\ IF AddChildThrows(e, c)
       THEN /\ lastOp' = Call("addChild", FALSE, <<>>)
            /\ nextChildOrder' = [nextChildOrder EXCEPT ![e] = @ + 1]
            /\ UNCHANGED <<active, parent, children, childrenByName, childrenByChild>>
       ELSE /\ DoAddChild(e, name, c)
            /\ lastOp' = Call("addChild", TRUE, <<>>)

\* e.addChild(name, c)
AddChild(e, name, c) ==
    /\ UNCHANGED <<alloc, sceneVars>>
    /\ IF AddChildThrows(e, c)
       THEN /\ lastOp' = Call("addChild", FALSE, <<>>)
            /\ UNCHANGED treeVars
       ELSE /\ SumOrders(Ent) < MaxAdds
            /\ DoAddChild(e, name, c)
            /\ lastOp' = Call("addChild", TRUE, <<>>)

\* e.removeChild(c)
RemoveChild(e, c) ==
    /\ UNCHANGED <<alloc, sceneVars>>
    /\ IF RemoveChildThrows(e, c)
       THEN /\ lastOp' = Call("removeChild", FALSE, <<>>)
            /\ UNCHANGED treeVars
       ELSE /\ DoRemoveChild(e, c)
            /\ lastOp' = Call("removeChild", TRUE, <<>>)

InitTree ==
    /\ EntityInit
    /\ alloc = {Root}
    /\ lastOp = Call("new", TRUE, <<Root>>)
    /\ SceneIdle

NextTree ==
    \/ Construct
    \/ \E e \in alloc, n \in Names, c \in alloc : AddChild(e, n, c)
    \/ \E e \in alloc, c \in alloc : RemoveChild(e, c)

SpecTree == InitTree /\ [][NextTree]_vars

\* ----------------------------------------------------- actions of SpecWalk

\* Scene.current.createChild({}, name, p): a new entity with no declared
\* children and no components is attached to p.
CreateEmptyChild(name, p) ==
    /\ alloc # Ent
    /\ alloc' = alloc \cup {NewEntity}
    /\ DoAddChild(p, name, NewEntity)
    /\ lastOp' = Call("createChild", TRUE, <<NewEntity>>)
    /\ UNCHANGED sceneVars

\* e.active = b
SetActive(e, b) ==
    /\ active' = [active EXCEPT ![e] = b]
    /\ lastOp' = Call("setActive", TRUE, <<e>>)
    /\ UNCHANGED <<parent, children, childrenByName, childrenByChild, nextChildOrder>>
    /\ UNCHANGED <<alloc, sceneVars>>

\* Scene.current.walk(fn) and Scene.current.walk(fn, false), fn recording the
\* entity it is given.
Walk(onlyActive) ==
    /\ lastOp' = Call(IF onlyActive THEN "walk" ELSE "walkAll", TRUE, walk(onlyActive))
    /\ UNCHANGED <<treeVars, alloc, sceneVars>>

NextWalk ==
    \/ \E n \in Names, p \in alloc : CreateEmptyChild(n, p)
    \/ \E e \in alloc, c \in alloc : RemoveChild(e, c)
    \/ \E e \in alloc, b \in BOOLEAN : SetActive(e, b)
    \/ \E b \in BOOLEAN : Walk(b)

SpecWalk == InitTree /\ [][NextWalk]_vars

\* ----------------------------------------------------- actions of SpecFind

\* Scene.current.findObject(objectName)
FindObject(objectName) ==
    /\ lastOp' = [op |-> "findObject", ok |-> TRUE,
                  out |-> <<findObject(objectName)>>, name |-> objectName]
    /\ UNCHANGED <<treeVars, alloc, sceneVars>>

NextFind ==
    \/ \E n \in Names, p \in alloc : CreateEmptyChild(n, p)
    \/ \E e \in alloc, c \in alloc : RemoveChild(e, c)
    \/ \E n \in Names : FindObject(n)

SpecFind == InitTree /\ [][NextFind]_vars

\* ------------------------------------------------ actions of SpecWalkAsync

\* walkRecursive(fn, entity, name, onlyActive), the synchronous part: nothing
\* for an entity the `active` test rejects, else walkChildren chains one
\* link per child that entity has now.
WalkFrame(entity, onlyActive) ==
    IF onlyActive /\ ~active[entity] THEN <<>>
    ELSE <<[of |-> entity, rest |-> walkChildren(entity)]>>

\* A chain with no link left has resolved: the chain that waits for it goes on.
RECURSIVE Resume(_)
Resume(stack) ==
    IF stack # <<>> /\ Head(stack).rest = <<>> THEN Resume(Tail(stack)) ELSE stack

\* The chains left once fn(c, k) has resolved, a mutant: the chain of c's
\* children is not waited for, the next sibling of c comes first.
AfterFnSiblingsFirst(stack, c, onlyActive) ==
    Resume(<<[Head(stack) EXCEPT !.rest = Tail(@)]>>)
      \o Resume(Tail(stack) \o WalkFrame(c, onlyActive))

\* .then(() => this.walkRecursive(fn, c, k, onlyActive)): the chains left once
\* fn(c, k) has resolved; the chain of c's children comes before the next
\* sibling of c.
AfterFn(stack, c, onlyActive) ==
    Resume(WalkFrame(c, onlyActive)
             \o <<[Head(stack) EXCEPT !.rest = Tail(@)]>>
             \o Tail(stack))

\* Scene.current.walk(fn, onlyActive) is called.
WalkStart(onlyActive) ==
    /\ walkMode = "none"
    /\ walkStack' = Resume(WalkFrame(Root, onlyActive))
    /\ walkMode' = IF walkStack' = <<>> THEN "none"
                   ELSE IF onlyActive THEN "active" ELSE "all"
    /\ walkCalls' = {}
    /\ walkLog' = <<>>
    /\ UNCHANGED <<treeVars, alloc, lastOp, compVars, queueVars, tasks, loopVars, clockVars, gameVars>>

\* p.then(() => fn(c, k)): the previous link has resolved and fn is called on
\* the next child of the chain on top.
WalkCallFn ==
    /\ walkMode # "none"
    /\ walkStack # <<>>
    /\ walkCalls = {}
    /\ LET top == Head(walkStack)
           entry == Head(top.rest)
       IN /\ walkCalls' = {entry.child}
          /\ walkLog' = Append(walkLog, [e |-> entry.child, name |-> entry.name, par |-> top.of])
    /\ UNCHANGED <<walkMode, walkStack>>
    /\ UNCHANGED <<treeVars, alloc, lastOp, compVars, queueVars, tasks, loopVars, clockVars, gameVars>>

\* The promise of fn(c, k) resolves and walkRecursive is called on c.
WalkFnSettle(c) ==
    /\ c \in walkCalls
    /\ walkCalls' = walkCalls \ {c}
    /\ walkStack' = AfterFn(walkStack, c, walkMode = "active")
    /\ walkMode' = IF walkStack' = <<>> THEN "none" ELSE walkMode
    /\ walkLog' = IF walkStack' = <<>> THEN <<>> ELSE walkLog
    /\ UNCHANGED <<treeVars, alloc, lastOp, compVars, queueVars, tasks, loopVars, clockVars, gameVars>>

NextWalkAsync ==
    \/ \E p \in alloc : CreateEmptyChild("a", p)
    \/ \E e \in alloc, b \in BOOLEAN : SetActive(e, b)
    \/ \E b \in BOOLEAN : WalkStart(b)
    \/ WalkCallFn
    \/ \E c \in alloc : WalkFnSettle(c)

SpecWalkAsync == InitTree /\ [][NextWalkAsync]_vars

\* --------------------------------------------------------- actions of Spec

\* Scene.createChild inside a chain: the next declared child of the entity on
\* top is constructed and attached, and its own chain starts.
TaskCreateChild(t) ==
    /\ tasks[t].wait = NoComp
    /\ tasks[t].stack # <<>>
    /\ Head(tasks[t].stack).kids # <<>>
    /\ Cardinality(alloc) < MaxEnt
    /\ LET top == Head(tasks[t].stack)
           d == Head(top.kids)
       IN /\ alloc' = alloc \cup {NewEntity}
          /\ DoAddChild(top.e, d.name, NewEntity)
          /\ tasks' = [tasks EXCEPT ![t].stack =
                         Unwind(<<Frame(NewEntity, d.children, d.components),
                                  Frame(top.e, Tail(top.kids), top.comps)>> \o Tail(@))]
    /\ UNCHANGED <<lastOp, compVars, queueVars, loopVars>>
    /\ UNCHANGED <<walkVars, clockVars, gameVars>>

\* Mutant: the components of a node are attached without waiting for the chain
\* of its declared children.
TaskAddComponentChildrenPending(t) ==
    /\ tasks[t].wait = NoComp
    /\ tasks[t].stack # <<>>
    /\ Head(tasks[t].stack).comps # <<>>
    /\ FreeComp
    /\ LET top == Head(tasks[t].stack)
       IN /\ AttachComponent(top.e, Head(top.comps), NewComp)
          /\ tasks' = [tasks EXCEPT ![t] =
                         [stack |-> <<Frame(top.e, top.kids, Tail(top.comps))>> \o Tail(tasks[t].stack),
                          wait |-> NewComp]]
    /\ UNCHANGED <<treeVars, alloc, lastOp, setupCalls, passes, loopVars>>
    /\ UNCHANGED <<walkVars, clockVars, gameVars>>

\* Entity.addComponent inside a chain: once the declared children are built, the
\* next declared component is attached and the chain waits for its create.
TaskAddComponent(t) ==
    /\ tasks[t].wait = NoComp
    /\ tasks[t].stack # <<>>
    /\ Head(tasks[t].stack).kids = <<>>
    /\ Head(tasks[t].stack).comps # <<>>
    /\ FreeComp
    /\ LET top == Head(tasks[t].stack)
       IN /\ AttachComponent(top.e, Head(top.comps), NewComp)
          /\ tasks' = [tasks EXCEPT ![t] =
                         [stack |-> <<Frame(top.e, <<>>, Tail(top.comps))>> \o Tail(tasks[t].stack),
                          wait |-> NewComp]]
    /\ UNCHANGED <<treeVars, alloc, lastOp, setupCalls, passes, loopVars>>
    /\ UNCHANGED <<walkVars, clockVars, gameVars>>

\* Mutant: a component queued while a pass is in progress joins that pass.
CreateSettleJoinsPass(c) ==
    /\ created[c] = "pending"
    /\ created' = [created EXCEPT ![c] = "done"]
    /\ compDescr' = QueueAfterCreate(c)
    /\ tasks' = [t \in Task |->
                   IF tasks[t].wait = c
                   THEN [stack |-> Unwind(tasks[t].stack), wait |-> NoComp]
                   ELSE tasks[t]]
    /\ IF passes = <<>>
       THEN UNCHANGED <<setupCalls, passes>>
       ELSE /\ passes' = [passes EXCEPT ![Len(passes)].pending = @ \cup {c}]
            /\ setupCalls' = [setupCalls EXCEPT ![c] = @ + 1]
    /\ UNCHANGED <<treeVars, alloc, lastOp, components, owner, ctype, enabled>>
    /\ UNCHANGED <<loopVars, walkVars, clockVars, gameVars>>

\* The promise of c.create(descr) resolves: onComponentCreated queues c, and
\* the chain that waits for it goes on.
CreateSettle(c) ==
    /\ created[c] = "pending"
    /\ created' = [created EXCEPT ![c] = "done"]
    /\ compDescr' = QueueAfterCreate(c)
    /\ tasks' = [t \in Task |->
                   IF tasks[t].wait = c
                   THEN [stack |-> Unwind(tasks[t].stack), wait |-> NoComp]
                   ELSE tasks[t]]
    /\ UNCHANGED <<treeVars, alloc, lastOp, components, owner, ctype, enabled>>
    /\ UNCHANGED <<setupCalls, passes, loopVars>>
    /\ UNCHANGED <<walkVars, clockVars, gameVars>>

\* The promise of c.create(descr) rejects: the chain that waits for it is
\* abandoned; when it is the chain of Scene.create, launchGame never starts
\* the loop.
CreateReject(c) ==
    /\ created[c] = "pending"
    /\ created' = [created EXCEPT ![c] = "failed"]
    /\ tasks' = [t \in Task |-> IF tasks[t].wait = c THEN IdleTask ELSE tasks[t]]
    /\ pc' = IF pc = "load" /\ tasks[0].wait = c THEN "dead" ELSE pc
    /\ UNCHANGED <<treeVars, alloc, lastOp, components, owner, ctype, enabled>>
    /\ UNCHANGED <<queueVars, sys, stage, frame, frameCount, dispQ, calls>>
    /\ UNCHANGED <<walkVars, clockVars, gameVars>>

\* Mutant: the loop is launched without waiting for the promise of Scene.create.
StartLoopEarly ==
    /\ pc = "load"
    /\ pc' = "frame" /\ sys' = 1 /\ stage' = "start" /\ frame' = 1
    /\ UNCHANGED <<treeVars, alloc, lastOp, compVars, queueVars, tasks, frameCount, dispQ, calls>>
    /\ UNCHANGED <<walkVars, clockVars, gameVars>>

\* launchGame: Scene.create has resolved, Utils.loop is called and main.iterate
\* starts the first frame.
StartLoop ==
    /\ pc = "load"
    /\ tasks[0] = IdleTask
    /\ pc' = "frame" /\ sys' = 1 /\ stage' = "start" /\ frame' = 1
    /\ UNCHANGED <<treeVars, alloc, lastOp, compVars, queueVars, tasks, frameCount, dispQ, calls>>
    /\ UNCHANGED <<walkVars, clockVars, gameVars>>

\* Mutant: the next call of loop does not wait for the iteration in progress.
RafDuringFrame ==
    /\ pc \in {"raf", "frame"}
    /\ frame < MaxFrame
    /\ pc' = "frame" /\ sys' = 1 /\ stage' = "start" /\ frame' = frame + 1
    /\ UNCHANGED <<treeVars, alloc, lastOp, compVars, queueVars, tasks, frameCount, dispQ, calls>>
    /\ UNCHANGED <<walkVars, clockVars, gameVars>>

\* Utils.loop: the display refresh arrives and the next frame starts.
Raf ==
    /\ pc = "raf"
    /\ frame < MaxFrame
    /\ pc' = "frame" /\ sys' = 1 /\ stage' = "start" /\ frame' = frame + 1
    /\ UNCHANGED <<treeVars, alloc, lastOp, compVars, queueVars, tasks, frameCount, dispQ, calls>>
    /\ UNCHANGED <<walkVars, clockVars, gameVars>>

\* SceneMgrSystem.iterate: Scene.current.refresh().
SceneMgrIterate ==
    /\ pc = "frame" /\ stage = "start" /\ systems[sys] = "sceneMgr"
    /\ passes' = Refresh(compDescr, passes, TRUE, frame)
    /\ setupCalls' = SetupCallsAfter(compDescr)
    /\ IF compDescr = {}
       THEN Advance
       ELSE stage' = "wait" /\ UNCHANGED <<pc, sys>>
    /\ UNCHANGED <<treeVars, alloc, lastOp, compVars, compDescr, tasks, frame, frameCount, dispQ, calls>>
    /\ UNCHANGED <<walkVars, clockVars, gameVars>>

\* The promise of a setup called by pass i resolves and the component leaves
\* the queue; with the last one of the pass the Promise.all resolves, its
\* continuation calls refresh again, and the promise refresh returned for this
\* pass resolves.  Nothing follows a Promise.all that has rejected.
SetupSettle(i, c) ==
    /\ c \in passes[i].pending
    /\ LET rest == passes[i].pending \ {c}
           queue == compDescr \ {c}
       IN /\ compDescr' = queue
          /\ IF rest # {}
             THEN /\ passes' = [passes EXCEPT ![i].pending = rest]
                  /\ UNCHANGED <<setupCalls, pc, sys, stage>>
             ELSE IF passes[i].failed
             THEN /\ passes' = RemoveAt(passes, i)
                  /\ UNCHANGED <<setupCalls, pc, sys, stage>>
             ELSE /\ passes' = Refresh(queue, RemoveAt(passes, i), FALSE, passes[i].frame)
                  /\ setupCalls' = SetupCallsAfter(queue)
                  /\ IF passes[i].awaited THEN Advance ELSE UNCHANGED <<pc, sys, stage>>
    /\ UNCHANGED <<treeVars, alloc, lastOp, compVars, tasks, frame, frameCount, dispQ, calls>>
    /\ UNCHANGED <<walkVars, clockVars, gameVars>>

\* DisplaySystem.iterate: the walk collects the display and camera components
\* and chains their calls.
DisplayIterate ==
    /\ pc = "frame" /\ stage = "start" /\ systems[sys] = "display"
    /\ dispQ' = DisplayChain
    /\ IF DisplayChain = <<>>
       THEN Advance
       ELSE stage' = "wait" /\ UNCHANGED <<pc, sys>>
    /\ UNCHANGED <<treeVars, alloc, lastOp, compVars, queueVars, tasks, frame, frameCount, calls>>
    /\ UNCHANGED <<walkVars, clockVars, gameVars>>

\* Mutant: the next call of the chain is made without waiting for the previous
\* one.
DisplayCallParallel ==
    /\ pc = "frame" /\ stage = "wait" /\ systems[sys] = "display"
    /\ dispQ # <<>>
    /\ calls' = calls \cup {Head(dispQ)}
    /\ dispQ' = Tail(dispQ)
    /\ UNCHANGED <<treeVars, alloc, lastOp, compVars, queueVars, tasks, pc, sys, stage, frame, frameCount>>
    /\ UNCHANGED <<walkVars, clockVars, gameVars>>

\* DisplaySystem.iterate: the previous link of the chain has resolved and the
\* next display or render is called.
DisplayCall ==
    /\ pc = "frame" /\ stage = "wait" /\ systems[sys] = "display"
    /\ dispQ # <<>>
    /\ calls = {}
    /\ calls' = {Head(dispQ)}
    /\ dispQ' = Tail(dispQ)
    /\ UNCHANGED <<treeVars, alloc, lastOp, compVars, queueVars, tasks, pc, sys, stage, frame, frameCount>>
    /\ UNCHANGED <<walkVars, clockVars, gameVars>>

\* LogicSystem.iterate: the walk collects the logic components and update is
\* called on each of them; Promise.all waits for them all.
LogicIterate ==
    /\ pc = "frame" /\ stage = "start" /\ systems[sys] = "logic"
    /\ frameCount' = frameCount + 1
    /\ calls' = {CallOf(LogicList[i].comp, "update") : i \in 1 .. Len(LogicList)}
    /\ IF LogicList = <<>>
       THEN Advance
       ELSE stage' = "wait" /\ UNCHANGED <<pc, sys>>
    /\ UNCHANGED <<treeVars, alloc, lastOp, compVars, queueVars, tasks, frame, dispQ>>
    /\ UNCHANGED <<walkVars, clockVars, gameVars>>

\* Mutant: the iteration resolves with the first call that settles
\* (Promise.race).
CallSettleFirst(k) ==
    /\ k \in calls
    /\ calls' = calls \ {k}
    /\ IF pc = "frame" /\ stage = "wait" /\ dispQ = <<>>
       THEN Advance
       ELSE UNCHANGED <<pc, sys, stage>>
    /\ UNCHANGED <<treeVars, alloc, lastOp, compVars, queueVars, tasks, frame, frameCount, dispQ>>
    /\ UNCHANGED <<walkVars, clockVars, gameVars>>

\* The promise of an update, display or render call resolves; when nothing is
\* left of the system's iteration, its promise resolves.  Nothing follows in
\* an iteration whose promise has rejected.
CallSettle(k) ==
    /\ k \in calls
    /\ calls' = calls \ {k}
    /\ IF calls' = {} /\ dispQ = <<>> /\ pc = "frame"
       THEN Advance
       ELSE UNCHANGED <<pc, sys, stage>>
    /\ UNCHANGED <<treeVars, alloc, lastOp, compVars, queueVars, tasks, frame, frameCount, dispQ>>
    /\ UNCHANGED <<walkVars, clockVars, gameVars>>

\* A setup in flight calls this.owner.addComponent(type, ...) (PlayerComponent.setup).
SpawnComponent(c, type) ==
    /\ InSetup(c)
    /\ FreeComp
    /\ AttachComponent(owner[c], type, NewComp)
    /\ UNCHANGED <<treeVars, alloc, lastOp, setupCalls, passes, tasks, loopVars>>
    /\ UNCHANGED <<walkVars, clockVars, gameVars>>

\* A setup or an update in flight calls Scene.current.createChild(template,
\* name, this.owner) with a template of one component
\* (BackgroundLoaderComponent.setup, ChickenSpawnerComponent.spawn).
SpawnChild(c, name, type) ==
    /\ InSetup(c) \/ CallOf(c, "update") \in calls
    /\ Cardinality(alloc) < MaxEnt
    /\ \E t \in Task \ {0} : tasks[t] = IdleTask
    /\ LET t == CHOOSE x \in Task \ {0} : tasks[x] = IdleTask
       IN tasks' = [tasks EXCEPT ![t] =
                      [stack |-> <<Frame(NewEntity, <<>>, <<type>>)>>, wait |-> NoComp]]
    /\ alloc' = alloc \cup {NewEntity}
    /\ DoAddChild(owner[c], name, NewEntity)
    /\ UNCHANGED <<lastOp, compVars, queueVars, loopVars>>
    /\ UNCHANGED <<walkVars, clockVars, gameVars>>

\* The promise of a setup called by pass i rejects: the component stays in the
\* queue, the Promise.all of the pass rejects at once (the other setups of the
\* pass go on) and so does the promise refresh returned for the pass; when
\* SceneMgrSystem.iterate waits for it, main.iterate rejects and Utils.loop
\* never asks for the next display refresh.
SetupReject(i, c) ==
    /\ c \in passes[i].pending
    /\ LET rest == passes[i].pending \ {c}
       IN passes' = IF rest = {} THEN RemoveAt(passes, i)
                    ELSE [passes EXCEPT ![i] = [pending |-> rest, awaited |-> FALSE,
                                                frame |-> passes[i].frame, failed |-> TRUE]]
    /\ pc' = IF passes[i].awaited THEN "dead" ELSE pc
    /\ lastOp' = Call("setup", FALSE, <<c>>)
    /\ UNCHANGED <<treeVars, alloc, compVars, compDescr, setupCalls, tasks>>
    /\ UNCHANGED <<sys, stage, frame, frameCount, dispQ, calls, walkVars, clockVars, gameVars>>

\* Mutant: the rejection is contained; the iteration goes on as if the call
\* had resolved.
CallRejectContained(k) ==
    /\ k \in calls
    /\ calls' = calls \ {k}
    /\ lastOp' = Call(k.method, FALSE, <<k.comp>>)
    /\ IF calls' = {} /\ dispQ = <<>> /\ pc = "frame"
       THEN Advance
       ELSE UNCHANGED <<pc, sys, stage>>
    /\ UNCHANGED <<treeVars, alloc, compVars, queueVars, tasks, frame, frameCount, dispQ>>
    /\ UNCHANGED <<walkVars, clockVars, gameVars>>

\* The promise of an update, display or render call rejects: the Promise.all
\* of the updates rejects at once (the other updates go on), the rest of the
\* display chain is never called; the system's iterate rejects, so does
\* main.iterate, and Utils.loop never asks for the next display refresh.
CallReject(k) ==
    /\ k \in calls
    /\ calls' = calls \ {k}
    /\ lastOp' = Call(k.method, FALSE, <<k.comp>>)
    /\ dispQ' = <<>>
    /\ pc' = "dead"
    /\ UNCHANGED <<treeVars, alloc, compVars, queueVars, tasks, sys, stage, frame, frameCount>>
    /\ UNCHANGED <<walkVars, clockVars, gameVars>>

\* Scene.create(description) is called by SceneMgrSystem.loadScene.
Init ==
    /\ EntityInit
    /\ alloc = {Root}
    /\ lastOp = Call("new", TRUE, <<Root>>)
    /\ ComponentInit
    /\ compDescr = {}
    /\ setupCalls = [c \in Comp |-> 0]
    /\ passes = <<>>
    /\ \E d \in Descriptions :
          tasks = [t \in Task |->
                     IF t = 0 THEN [stack |-> Unwind(<<Frame(Root, d, <<>>)>>), wait |-> NoComp]
                     ELSE IdleTask]
    /\ pc = "load" /\ sys = 0 /\ stage = "idle"
    /\ frame = 0 /\ frameCount = 0
    /\ dispQ = <<>> /\ calls = {}
    /\ WalkIdle
    /\ ClockInit
    /\ GameIdle

Next ==
    \/ \E t \in Task : TaskCreateChild(t)
    \/ \E t \in Task : TaskAddComponent(t)
    \/ \E c \in Comp : CreateSettle(c)
    \/ \E c \in Comp : CreateReject(c)
    \/ StartLoop
    \/ Raf
    \/ SceneMgrIterate
    \/ \E i \in 1 .. Len(passes), c \in Comp : SetupSettle(i, c)
    \/ DisplayIterate
    \/ DisplayCall
    \/ LogicIterate
    \/ \E k \in calls : CallSettle(k)
    \/ \E c \in Comp, type \in Types : SpawnComponent(c, type)
    \/ \E c \in Comp, n \in Names, type \in Types : SpawnChild(c, n, type)

Spec == Init /\ [][Next]_vars

\* Every setup that is called settles.
SetupsSettle == WF_vars(\E i \in 1 .. Len(passes), c \in Comp : SetupSettle(i, c))

SpecLive == Init /\ [][Next]_vars /\ SetupsSettle

\* A step of the loop: a promise it waits for settles (a setup called by a
\* refresh, an update, a display or a render), a system's iterate is called
\* when its turn has come, or the callback of requestAnimationFrame is called.
LoopStep ==
    \/ \E i \in 1 .. Len(passes), c \in Comp : SetupSettle(i, c)
    \/ \E k \in calls : CallSettle(k)
    \/ SceneMgrIterate
    \/ DisplayIterate
    \/ DisplayCall
    \/ LogicIterate
    \/ Raf

\* The promises settle and the display keeps refreshing.
LoopProgress == WF_vars(LoopStep)

\* The scene and the loop when nothing fails: no create rejects; a setup may
\* add a component to its owner.
NextLoop ==
    \/ \E t \in Task : TaskCreateChild(t)
    \/ \E t \in Task : TaskAddComponent(t)
    \/ \E c \in Comp : CreateSettle(c)
    \/ StartLoop
    \/ \E c \in Comp, type \in Types : SpawnComponent(c, type)
    \/ LoopStep

SpecLoop == Init /\ [][NextLoop]_vars /\ LoopProgress

\* The scene and the loop when a setup may also reject.
NextReject ==
    \/ Next
    \/ \E i \in 1 .. Len(passes), c \in Comp : SetupReject(i, c)

SpecReject == Init /\ [][NextReject]_vars

\* The scene and the loop when an update, a display or a render may also
\* reject.
NextCallReject ==
    \/ Next
    \/ \E k \in calls : CallReject(k)

SpecCallReject == Init /\ [][NextCallReject]_vars

\* ----------------------------------------------------- actions of SpecComp

\* The type tags addComponent is called with: the registered ones, one that
\* is no property of componentCreators, and one that componentCreators
\* inherits from Object.prototype.
Tags == Types \cup {"Bogus", "constructor"}

\* ComponentFactory.componentCreators[type]: the class registered under the
\* tag; for a tag that is not registered, undefined, or, componentCreators being
\* an object literal, what it inherits under that name: `constructor` is
\* Object.
Creator(type) ==
    IF type \in Types THEN "class"
    ELSE IF type = "constructor" THEN "Object"
    ELSE "undefined"

\* The entity e where a component is expected: `new Object(owner)` answers
\* its argument.
AsComp(e) == 0 - (e + 1)

\* Mutant: every assignment calls the hook of the value assigned.
HooksCalledAlways(was, val) == IF val THEN <<"onEnabled">> ELSE <<"onDisabled">>

\* Component `set enabled(val)`: the hooks the assignment calls, in call
\* order; none when the flag has the value already.
HooksCalled(was, val) ==
    IF was = val THEN <<>>
    ELSE IF val THEN <<"onEnabled">> ELSE <<"onDisabled">>

\* comp.enabled = val, on a component that has been constructed.
SetEnabled(c, val) ==
    /\ owner[c] # Null
    /\ enabled' = (IF enabled[c] = val THEN enabled ELSE EnabledAfter(enabled, c, val))
    /\ lastOp' = [op |-> "setEnabled", ok |-> TRUE, out |-> <<c>>,
                  val |-> val, hooks |-> HooksCalled(enabled[c], val)]
    /\ UNCHANGED <<treeVars, alloc, components, owner, ctype, created>>
    /\ UNCHANGED <<queueVars, tasks, loopVars, walkVars, clockVars, gameVars>>

\* e.addComponent(type, descr), up to the promise it returns.  With a
\* registered tag the component is constructed and stored and its create is
\* called.  With a tag for which componentCreators has nothing, `new
\* undefined(owner)` throws before anything is stored.  With `constructor`,
\* `new Object(e)` answers e, which is stored under the tag; the promise
\* rejects, e having no create, and onComponentCreated is not called.
AddComponent(e, type) ==
    /\ IF Creator(type) = "class"
       THEN /\ FreeComp
            /\ AttachComponent(e, type, NewComp)
            /\ lastOp' = [op |-> "addComponent", ok |-> TRUE, out |-> <<NewComp>>,
                          on |-> e, type |-> type]
       ELSE /\ components' = (IF Creator(type) = "Object"
                               THEN [components EXCEPT ![e] = MapSet(@, type, AsComp(e))]
                               ELSE components)
            /\ lastOp' = [op |-> "addComponent", ok |-> FALSE, out |-> <<>>,
                          on |-> e, type |-> type]
            /\ UNCHANGED <<owner, ctype, enabled, created, compDescr>>
    /\ UNCHANGED <<treeVars, alloc, setupCalls, passes, tasks, loopVars, walkVars, clockVars, gameVars>>

\* The root is given one child; addComponent is called on either, create
\* resolves, and the enabled flags are assigned.
NextComp ==
    \/ alloc = {Root} /\ CreateEmptyChild("a", Root)
    \/ \E e \in alloc, type \in Tags : AddComponent(e, type)
    \/ \E c \in Comp : CreateSettle(c)
    \/ \E c \in Comp, val \in BOOLEAN : SetEnabled(c, val)

SpecComp == InitTree /\ [][NextComp]_vars

\* ---------------------------------------------------- actions of SpecClock

\* Mutant: the value is bounded from above only.
clampUpperOnly(x, min, max) == IF x < max THEN x ELSE max

\* Utils.clamp(x, min, max): Math.min(Math.max(x, min), max).
clamp(x, min, max) ==
    LET lower == IF x > min THEN x ELSE min
    IN IF lower < max THEN lower ELSE max

\* Utils.loop(actions, time): delta is computed, in milliseconds (the model
\* leaves out the division by 1000), lastTime is set and iterate(actions,
\* delta) is called, which calls main.iterate(delta).
loop(time) ==
    /\ delta' = clamp(time - lastTime, 0, MaxDelta)
    /\ lastTime' = time
    /\ pc' = "frame" /\ sys' = 1 /\ stage' = "start" /\ frame' = frame + 1

\* launchGame: the scene is loaded and Utils.loop([iterate]) is called; the
\* parameter `time` takes its default, 0.
LoopStart ==
    /\ pc = "load"
    /\ tasks[0] = IdleTask
    /\ loop(0)
    /\ UNCHANGED <<treeVars, alloc, lastOp, compVars, queueVars, tasks, frameCount, dispQ, calls, walkVars, gameVars>>

\* The display refreshes: the callback of requestAnimationFrame is called with
\* the timestamp t and calls loop(actions, t).
Tick(t) ==
    /\ pc = "raf"
    /\ frame <= MaxTicks
    /\ loop(t)
    /\ UNCHANGED <<treeVars, alloc, lastOp, compVars, queueVars, tasks, frameCount, dispQ, calls, walkVars, gameVars>>

\* main.iterate: s.iterate(dT) is called on the system whose turn it is, on a
\* scene without components: refresh answers null and the walks collect
\* nothing, so the promise of the system resolves.
SystemIterate ==
    /\ pc = "frame" /\ stage = "start"
    /\ compDescr = {} /\ LogicList = <<>> /\ DisplayChain = <<>>
    /\ lastOp' = [op |-> "iterate", ok |-> TRUE, out |-> <<>>,
                  system |-> systems[sys], dT |-> delta]
    /\ frameCount' = IF systems[sys] = "logic" THEN frameCount + 1 ELSE frameCount
    /\ Advance
    /\ UNCHANGED <<treeVars, alloc, compVars, queueVars, tasks, frame, dispQ, calls>>
    /\ UNCHANGED <<walkVars, clockVars, gameVars>>

\* Scene.create({}) has resolved: a scene with its root only.
InitClock ==
    /\ EntityInit
    /\ alloc = {Root}
    /\ lastOp = Call("new", TRUE, <<Root>>)
    /\ ComponentInit
    /\ compDescr = {}
    /\ setupCalls = [c \in Comp |-> 0]
    /\ passes = <<>>
    /\ tasks = [t \in Task |-> IdleTask]
    /\ pc = "load" /\ sys = 0 /\ stage = "idle"
    /\ frame = 0 /\ frameCount = 0
    /\ dispQ = <<>> /\ calls = {}
    /\ WalkIdle
    /\ ClockInit
    /\ GameIdle

NextClock ==
    \/ LoopStart
    \/ \E t \in Times : Tick(t)
    \/ SystemIterate

SpecClock == InitClock /\ [][NextClock]_vars

\* ---------------------------------------------------- actions of SpecLogic

\* What the synchronous part of an update does to the enabled flags: nothing
\* (c = NoComp), or `comp.enabled = val` on one component.
Effect == {[c |-> NoComp, val |-> TRUE]} \cup [c : Comp, val : BOOLEAN]

\* The enabled flags once the synchronous parts of the updates have run, in
\* call order.
RECURSIVE AfterUpdates(_, _)
AfterUpdates(en, effs) ==
    IF effs = <<>> THEN en
    ELSE AfterUpdates(IF Head(effs).c = NoComp THEN en
                      ELSE EnabledAfter(en, Head(effs).c, Head(effs).val),
                      Tail(effs))

\* Mutant: update is called only on the components of the list that are still
\* enabled when their turn comes.
RECURSIVE UpdateCallsEnabledNow(_, _, _)
UpdateCallsEnabledNow(list, effs, en) ==
    IF list = <<>> THEN <<>>
    ELSE IF en[Head(list).comp]
         THEN <<Head(list).comp>>
                \o UpdateCallsEnabledNow(Tail(list), Tail(effs),
                                         AfterUpdates(en, <<Head(effs)>>))
         ELSE UpdateCallsEnabledNow(Tail(list), Tail(effs), en)

\* components.forEach((c) => p.push(c.update(timing))): the components update
\* is called on, in call order; the flag is read by walkFn, not here.
UpdateCalls(list, effs, en) == [i \in 1 .. Len(list) |-> list[i].comp]

\* Mutant: each update gets a Timing of its own.
TimingPerCall(dT, count, i) == [dT |-> dT, frame |-> count + i - 1]

\* new Timing(dT, this.frameCount++): the one object every update of the
\* iteration is given.
Timing(dT, count, i) == [dT |-> dT, frame |-> count]

\* LogicSystem.iterate, the synchronous parts of the updates included: the walk
\* collects the list, then update is called on each component of the list in
\* turn, and each update may enable or disable a component before it returns
\* its promise.
LogicIterateActing(effs) ==
    /\ pc = "frame" /\ stage = "start" /\ systems[sys] = "logic"
    /\ frameCount' = frameCount + 1
    /\ LET called == UpdateCalls(LogicList, effs, enabled)
       IN /\ lastOp' = Call("update", TRUE,
                            [i \in 1 .. Len(called) |->
                               [comp |-> called[i], timing |-> Timing(delta, frameCount, i)]])
          /\ calls' = {CallOf(called[i], "update") : i \in 1 .. Len(called)}
          /\ enabled' = AfterUpdates(enabled, effs)
          /\ IF called = <<>>
             THEN Advance
             ELSE stage' = "wait" /\ UNCHANGED <<pc, sys>>
    /\ UNCHANGED <<treeVars, alloc, components, owner, ctype, created>>
    /\ UNCHANGED <<queueVars, tasks, frame, dispQ, walkVars, clockVars, gameVars>>

NextLogic ==
    \/ \E t \in Task : TaskCreateChild(t)
    \/ \E t \in Task : TaskAddComponent(t)
    \/ \E c \in Comp : CreateSettle(c)
    \/ StartLoop
    \/ Raf
    \/ SceneMgrIterate
    \/ \E i \in 1 .. Len(passes), c \in Comp : SetupSettle(i, c)
    \/ DisplayIterate
    \/ DisplayCall
    \/ \E effs \in [1 .. Len(LogicList) -> Effect] :
          /\ \A i \in 1 .. Len(effs) : effs[i].c # NoComp => owner[effs[i].c] # Null
          /\ LogicIterateActing(effs)
    \/ \E k \in calls : CallSettle(k)
    \/ \E c \in Comp : SpawnChild(c, "b", "Sprite")

SpecLogic == Init /\ [][NextLogic]_vars

\* ------------------------------------------------------ actions of SpecRef

\* Scene descriptions of two siblings a and b, one with a Sprite and the other
\* with a Camera, declared in either order.
RefDescriptions ==
    { <<Node(n, <<>>, <<t>>), Node(m, <<>>, <<u>>)>> :
         <<n, m, t, u>> \in { x \in Names \X Names \X Types \X Types :
                                 x[1] # x[2] /\ x[3] # x[4] } }

\* The dotted name in the descriptor of the component c, split at the dot
\* (name.split('.')): it names the component of the sibling, "b.Camera" in the
\* Sprite of a, "a.Sprite" in the Camera of b, and so on.
RefTokens(c) ==
    <<IF childrenByChild[parent[owner[c]]][owner[c]].name = "a" THEN "b" ELSE "a",
      IF ctype[c] = "Sprite" THEN "Camera" ELSE "Sprite">>

\* Component.findComponent(name), on the tokens of the name: findObject of the
\* first, and getComponent of the second on the entity found; an absent value
\* when there is no such entity or it has no such component.
findComponent(tokens) ==
    LET target == findObject(tokens[1])
    IN IF target = Null THEN NoComp ELSE getComponent(target, tokens[2])

\* Mutant: the scene is refreshed while its description is still being loaded.
RefreshDueWhileLoading ==
    \/ pc = "load"
    \/ pc = "frame" /\ stage = "start" /\ systems[sys] = "sceneMgr"

\* main.iterate inside Utils.loop, which launchGame calls once loadScene has
\* resolved: the turn of SceneMgrSystem.iterate has come.
RefreshDue == pc = "frame" /\ stage = "start" /\ systems[sys] = "sceneMgr"

\* SceneMgrSystem.iterate: Scene.current.refresh(), the setup of every queued
\* component calling findComponent on the name in its descriptor.
SceneMgrIterateLooking ==
    /\ RefreshDue
    /\ passes' = Refresh(compDescr, passes, TRUE, frame)
    /\ setupCalls' = SetupCallsAfter(compDescr)
    /\ lastOp' = [op |-> "setup", ok |-> TRUE, out |-> <<>>,
                  found |-> [c \in compDescr |-> findComponent(RefTokens(c))]]
    /\ IF compDescr = {}
       THEN Advance
       ELSE stage' = "wait" /\ UNCHANGED <<pc, sys>>
    /\ UNCHANGED <<treeVars, alloc, compVars, compDescr, tasks, frame, frameCount, dispQ, calls>>
    /\ UNCHANGED <<walkVars, clockVars, gameVars>>

\* Scene.create(description) is called with one of the two descriptions.
InitRef ==
    /\ EntityInit
    /\ alloc = {Root}
    /\ lastOp = Call("new", TRUE, <<Root>>)
    /\ ComponentInit
    /\ compDescr = {}
    /\ setupCalls = [c \in Comp |-> 0]
    /\ passes = <<>>
    /\ \E d \in RefDescriptions :
          tasks = [t \in Task |->
                     IF t = 0 THEN [stack |-> Unwind(<<Frame(Root, d, <<>>)>>), wait |-> NoComp]
                     ELSE IdleTask]
    /\ pc = "load" /\ sys = 0 /\ stage = "idle"
    /\ frame = 0 /\ frameCount = 0
    /\ dispQ = <<>> /\ calls = {}
    /\ WalkIdle
    /\ ClockInit
    /\ GameIdle

NextRef ==
    \/ \E t \in Task : TaskCreateChild(t)
    \/ \E t \in Task : TaskAddComponent(t)
    \/ \E c \in Comp : CreateSettle(c)
    \/ StartLoop
    \/ SceneMgrIterateLooking
    \/ \E i \in 1 .. Len(passes), c \in Comp : SetupSettle(i, c)
    \/ DisplayIterate
    \/ DisplayCall
    \/ LogicIterate
    \/ \E k \in calls : CallSettle(k)
    \/ Raf

SpecRef == InitRef /\ [][NextRef]_vars

\* --------------------------------------------------- actions of SpecDetach

\* Scene descriptions with two components that have update, on siblings or on
\* an entity and its child, besides those of Spec.
DetachDescriptions ==
    Descriptions \cup
    { <<Node("a", <<>>, <<"Sprite">>), Node("b", <<>>, <<"Sprite">>)>>,
      <<Node("a", <<Node("b", <<>>, <<"Sprite">>)>>, <<"Sprite">>)>> }

\* LogicSystem.iterate, the synchronous parts of the updates included: the walk
\* collects the list, then update is called on each component of the list in
\* turn; the update of the i-th (none with i = 0) detaches the entity e before
\* it returns its promise (`this.owner.parent.removeChild(this.owner)` in
\* ChickenComponent.update, `obj.parent.removeChild(obj)` in
\* PlayerComponent.onCollision, called by ColliderComponent.update).
LogicIterateRemoving(i, e) ==
    /\ pc = "frame" /\ stage = "start" /\ systems[sys] = "logic"
    /\ i \in 0 .. Len(LogicList)
    /\ IF i = 0
       THEN e = Null /\ UNCHANGED treeVars
       ELSE e \in alloc /\ parent[e] # Null /\ DoRemoveChild(parent[e], e)
    /\ frameCount' = frameCount + 1
    /\ lastOp' = [op |-> "update", ok |-> TRUE,
                  out |-> [j \in 1 .. Len(LogicList) |-> LogicList[j].comp],
                  by |-> i, removed |-> e, frame |-> frameCount]
    /\ calls' = {CallOf(LogicList[j].comp, "update") : j \in 1 .. Len(LogicList)}
    /\ IF LogicList = <<>>
       THEN Advance
       ELSE stage' = "wait" /\ UNCHANGED <<pc, sys>>
    /\ UNCHANGED <<alloc, compVars, queueVars, tasks, frame, dispQ>>
    /\ UNCHANGED <<walkVars, clockVars, gameVars>>

\* Scene.create(description) is called with one of the descriptions.
InitDetach ==
    /\ EntityInit
    /\ alloc = {Root}
    /\ lastOp = Call("new", TRUE, <<Root>>)
    /\ ComponentInit
    /\ compDescr = {}
    /\ setupCalls = [c \in Comp |-> 0]
    /\ passes = <<>>
    /\ \E d \in DetachDescriptions :
          tasks = [t \in Task |->
                     IF t = 0 THEN [stack |-> Unwind(<<Frame(Root, d, <<>>)>>), wait |-> NoComp]
                     ELSE IdleTask]
    /\ pc = "load" /\ sys = 0 /\ stage = "idle"
    /\ frame = 0 /\ frameCount = 0
    /\ dispQ = <<>> /\ calls = {}
    /\ WalkIdle
    /\ ClockInit
    /\ GameIdle

NextDetach ==
    \/ \E t \in Task : TaskCreateChild(t)
    \/ \E t \in Task : TaskAddComponent(t)
    \/ \E c \in Comp : CreateSettle(c)
    \/ StartLoop
    \/ Raf
    \/ SceneMgrIterate
    \/ \E i \in 1 .. Len(passes), c \in Comp : SetupSettle(i, c)
    \/ DisplayIterate
    \/ DisplayCall
    \/ \E i \in 0 .. NumComp, e \in Ent \cup {Null} : LogicIterateRemoving(i, e)
    \/ \E k \in calls : CallSettle(k)
    \/ \E c \in Comp : SpawnChild(c, "b", "Sprite")

SpecDetach == InitDetach /\ [][NextDetach]_vars

\* ---------------------------------------------------- actions of SpecLayer

\* comp instanceof SpriteComponent
isSpriteComponent(t) == t = "Sprite"

\* child.walkComponent((comp) => ...): the enabled sprites among the components
\* of e, in the order of its map.
spritesOf(e) ==
    LET hits == SelectSeq(components[e],
                          LAMBDA k : isSpriteComponent(k.type) /\ enabled[k.comp])
    IN [i \in 1 .. Len(hits) |-> hits[i].comp]

RECURSIVE getRecursiveSprites(_)

\* Mutant: an inactive child is listed like an active one.
RECURSIVE spritesOfChildrenInactiveToo(_)
spritesOfChildrenInactiveToo(entries) ==
    IF entries = <<>> THEN <<>>
    ELSE spritesOf(Head(entries).child)
           \o getRecursiveSprites(Head(entries).child)
           \o spritesOfChildrenInactiveToo(Tail(entries))

\* The callback of owner.walkChildren in getRecursiveSprites, over the
\* children in walkChildren order: an inactive child is skipped with all that
\* is below it; of an active child the sprites are pushed, then the recursion
\* goes below it.
RECURSIVE spritesOfChildren(_)
spritesOfChildren(entries) ==
    IF entries = <<>> THEN <<>>
    ELSE (IF ~active[Head(entries).child] THEN <<>>
          ELSE spritesOf(Head(entries).child)
                 \o getRecursiveSprites(Head(entries).child))
           \o spritesOfChildren(Tail(entries))

\* LayerComponent.getRecursiveSprites(owner, sprites): what it pushes.
getRecursiveSprites(e) == spritesOfChildren(walkChildren(e))

\* LayerComponent.listSprites(), e being the owner of the layer.
listSprites(e) == getRecursiveSprites(e)

\* listSprites is called on a layer owned by e.
ListSprites(e) ==
    /\ lastOp' = [op |-> "listSprites", ok |-> TRUE, out |-> listSprites(e), on |-> e]
    /\ UNCHANGED <<treeVars, alloc, sceneVars>>

\* The place of each call in the script that builds the inputs of
\* listSprites.
Rank(op) ==
    CASE op \in {"new", "createChild"} -> 1
      [] op = "addComponent" -> 2
      [] op = "setEnabled" -> 3
      [] op = "setActive" -> 4
      [] OTHER -> 5

\* The inputs of listSprites are built by a script, each of them once:
\* entities are created below one another, then sprites are added to them,
\* then some sprites are disabled and some entities made inactive (in the
\* order of their numbers), and last listSprites is called on a layer owned
\* by any entity.
NextLayer ==
    \/ /\ Rank(lastOp.op) <= 1
       /\ \E p \in alloc : CreateEmptyChild("a", p)
    \/ /\ Rank(lastOp.op) <= 2
       /\ \E e \in alloc : AddComponent(e, "Sprite")
    \/ /\ Rank(lastOp.op) <= 3
       /\ \E c \in Comp : (lastOp.op = "setEnabled" => lastOp.out[1] < c) /\ SetEnabled(c, FALSE)
    \/ /\ Rank(lastOp.op) <= 4
       /\ \E e \in alloc : (lastOp.op = "setActive" => lastOp.out[1] < e) /\ SetActive(e, FALSE)
    \/ /\ Rank(lastOp.op) <= 4
       /\ \E e \in alloc : ListSprites(e)

SpecLayer == InitTree /\ [][NextLayer]_vars

\* -------------------------------------------------- actions of SpecTrigger

\* EventTrigger.trigger(...params) over the handlers hs in Map order: the
\* calls method.apply(handler.instance, params) it makes.  `params` is one
\* array for all handlers: a context that is truthy is pushed on it and stays.
RECURSIVE trigger(_, _)
trigger(hs, params) ==
    IF hs = <<>> THEN <<>>
    ELSE LET pushed == IF Head(hs).context THEN Append(params, Head(hs).context)
                       ELSE params
         IN <<[instance |-> Head(hs).instance, args |-> pushed]>>
              \o trigger(Tail(hs), pushed)

\* EnablerComponent.setup, one key of descr.onEvent: the target is looked up
\* and registered with the flag declared for it as context;
\* EventTrigger.add without name takes autoIndex++ as key.
EnablerAdd(target, declared) ==
    /\ owner[target] # Null
    /\ autoIndex < MaxHandlers
    /\ handlers' = Append(handlers, [name |-> autoIndex, instance |-> target,
                                     context |-> declared])
    /\ autoIndex' = autoIndex + 1
    /\ lastOp' = Call("add", TRUE, <<autoIndex>>)
    /\ UNCHANGED <<treeVars, alloc, compVars, queueVars, tasks, loopVars, walkVars, clockVars>>
    /\ UNCHANGED <<lifeValue, isDead, isInvulnerable, colliderEnabled, winTriggers>>

\* EnablerComponent.onEvent: this.eventTargets.trigger().  Each call is
\* Component.enable(val) with the first argument, undefined when there is
\* none, and the flag of the target becomes true or false as val is truthy
\* or not.
OnEvent ==
    /\ LET called == trigger(handlers, <<>>)
       IN /\ lastOp' = Call("onEvent", TRUE, called)
          /\ enabled' = AfterUpdates(enabled,
                           [i \in 1 .. Len(called) |->
                              [c |-> called[i].instance,
                               val |-> called[i].args # <<>> /\ called[i].args[1]]])
    /\ UNCHANGED <<treeVars, alloc, components, owner, ctype, created>>
    /\ UNCHANGED <<queueVars, tasks, loopVars, walkVars, clockVars>>
    /\ UNCHANGED gameVars

\* Components are added to the root, an enabler registers them with the flags
\* declared for them, and its event arrives.
NextTrigger ==
    \/ \E type \in Types : AddComponent(Root, type)
    \/ \E target \in Comp, declared \in BOOLEAN : EnablerAdd(target, declared)
    \/ OnEvent

SpecTrigger == InitTree /\ [][NextTrigger]_vars

\* ----------------------------------------------------- actions of SpecGame

\* What a player's collider meets: a chicken that attacks, or a heart.
Hit == [kind : {"chicken", "heart"}, amount : 1 .. MaxLife]

\* The sequences of at most MaxHits colliders a player's collider intersects
\* in one update.
HitSeqs == UNION {[1 .. n -> Hit] : n \in 1 .. MaxHits}

\* The fields of the players and of the referee, as one record.
GameState ==
    [life |-> lifeValue, dead |-> isDead, invulnerable |-> isInvulnerable,
     collider |-> colliderEnabled, wins |-> winTriggers]

\* RefereeComponent.onDead: winEvent is triggered when every player is dead.
refereeOnDead(st) ==
    IF \A q \in Players : st.dead[q]
    THEN [st EXCEPT !.wins = @ + 1]
    ELSE st

\* PlayerComponent.onDead, the handler of life.deadEvent: isDead is set and
\* the player's deadEvent is triggered, whose handler is the referee's onDead.
playerOnDead(st, p) == refereeOnDead([st EXCEPT !.dead[p] = TRUE])

\* PlayerComponent.onHurt, the handler of life.hurtEvent: the player is
\* invulnerable and its collider disabled until a timer ends.
playerOnHurt(st, p) == [st EXCEPT !.invulnerable[p] = TRUE, !.collider[p] = FALSE]

\* LifeComponent `set value(newVal)`, max being MaxLife: the value is bounded,
\* deadEvent is triggered for 0 and hurtEvent for a smaller value, then the
\* value is stored.
setValue(st, p, newVal) ==
    LET atLeast == IF newVal < 0 THEN 0 ELSE newVal
        bounded == IF atLeast > MaxLife THEN MaxLife ELSE atLeast
        after == IF bounded = 0 THEN playerOnDead(st, p)
                 ELSE IF bounded < st.life[p] THEN playerOnHurt(st, p)
                 ELSE st
    IN [after EXCEPT !.life[p] = bounded]

\* PlayerComponent.onCollision with a chicken (the player not attacking) or
\* with a heart.
onCollision(st, p, hit) ==
    IF hit.kind = "chicken"
    THEN setValue(st, p, st.life[p] - hit.amount)
    ELSE setValue(st, p, st.life[p] + hit.amount)

\* ColliderComponent.update of the collider of p: colliders.forEach, the
\* handler's onCollision being called for each collider that intersects.
RECURSIVE colliderUpdate(_, _, _)
colliderUpdate(st, p, hits) ==
    IF hits = <<>> THEN st
    ELSE colliderUpdate(onCollision(st, p, Head(hits)), p, Tail(hits))

\* LogicSystem.iterate calls update on the collider of p, collected while it
\* was enabled; it intersects the colliders `hits`.
ColliderUpdate(p, hits) ==
    /\ colliderEnabled[p]
    /\ winTriggers < MaxWins
    /\ LET st == colliderUpdate(GameState, p, hits)
       IN /\ lifeValue' = st.life
          /\ isDead' = st.dead
          /\ isInvulnerable' = st.invulnerable
          /\ colliderEnabled' = st.collider
          /\ winTriggers' = st.wins
    /\ UNCHANGED <<treeVars, alloc, lastOp, compVars, queueVars, tasks, loopVars, walkVars, clockVars>>
    /\ UNCHANGED <<handlers, autoIndex>>

\* PlayerComponent.update of a dead player: updateDead disables its collider.
PlayerUpdateDead(p) ==
    /\ isDead[p]
    /\ colliderEnabled' = [colliderEnabled EXCEPT ![p] = FALSE]
    /\ UNCHANGED <<treeVars, alloc, lastOp, compVars, queueVars, tasks, loopVars, walkVars, clockVars>>
    /\ UNCHANGED <<handlers, autoIndex, lifeValue, isDead, isInvulnerable, winTriggers>>

\* The timer onHurt started with invulnerableDuration ends: the player is no
\* longer invulnerable and its collider is enabled.
InvulnerableEnds(p) ==
    /\ isInvulnerable[p]
    /\ isInvulnerable' = [isInvulnerable EXCEPT ![p] = FALSE]
    /\ colliderEnabled' = [colliderEnabled EXCEPT ![p] = TRUE]
    /\ UNCHANGED <<treeVars, alloc, lastOp, compVars, queueVars, tasks, loopVars, walkVars, clockVars>>
    /\ UNCHANGED <<handlers, autoIndex, lifeValue, isDead, winTriggers>>

NextGame ==
    \/ \E p \in Players, hits \in HitSeqs : ColliderUpdate(p, hits)
    \/ \E p \in Players : PlayerUpdateDead(p)
    \/ \E p \in Players : InvulnerableEnds(p)

SpecGame == InitTree /\ [][NextGame]_vars

\* ----------------------------------------------------- actions of SpecDraw

\* GL.UNSIGNED_SHORT: drawElements reads elements of 16 bits.
IndexBits == 16

\* The numbers of sprites a layer is displayed with: the small ones and the
\* ones around 2^IndexBits \div 4.
LayerSizes ==
    {n \in 0 .. MaxSprites : n <= SmallSprites \/ n >= 2^(IndexBits - 2) - 1}

\* The bytes of an element of the typed array `indices`: 2 for the
\* Uint16Array of dist/merged.js, 4 for the Uint32Array of layerComponent.ts.
ElementBytes == {2, 4}

\* setupVerticesAndIndices: the entry of indicesArray at position k (from 0),
\* pushed as 4i, 4i+1, 4i+2, 4i+2, 4i+3, 4i for sprite i.
indicesArrayAt(k) ==
    LET i == k \div 6
    IN 4 * i + <<0, 1, 2, 2, 3, 0>>[(k % 6) + 1]

\* new Uint16Array(indicesArray) or new Uint32Array(indicesArray) keeps each
\* number modulo 2^(8 * bytes), as bytes \div 2 halves of IndexBits bits, low
\* half first: half h of the element at position k (from 0).
indicesHalfAt(k, h) == (indicesArrayAt(k) \div (2^IndexBits)^h) % 2^IndexBits

\* The element of IndexBits bits at position j (from 0) of the buffer the
\* typed array was copied to.
elementAt(j, bytes) ==
    LET halves == bytes \div 2
    IN indicesHalfAt(j \div halves, j % halves)

\* GL.drawElements(GL.TRIANGLES, indices.length, GL.UNSIGNED_SHORT, 0): the
\* indices drawn for n sprites.
drawElements(n, bytes) == [j \in 1 .. 6 * n |-> elementAt(j - 1, bytes)]

\* LayerComponent.display with n sprites listed: nothing is drawn for none,
\* otherwise the indices are set up, converted, bound and drawn.
LayerDisplay(n, bytes) ==
    /\ lastOp' = [op |-> "display", ok |-> n # 0,
                  out |-> IF n = 0 THEN <<>> ELSE drawElements(n, bytes),
                  sprites |-> n, bytes |-> bytes]
    /\ UNCHANGED <<treeVars, alloc, compVars, queueVars, tasks, loopVars, walkVars, clockVars, gameVars>>

NextDraw == \E n \in LayerSizes, bytes \in ElementBytes : LayerDisplay(n, bytes)

SpecDraw == InitTree /\ [][NextDraw]_vars

\* ------------------------------------------------------ properties, SpecTree

\* The children of e, as entities.
Kids(e) == {x.child : x \in children[e]}

\* s without the element c.
Without(s, c) == SelectSeq(s, LAMBDA x : x # c)

\* A step in which e.addChild(n, c) returned normally: the call is read off
\* the entry the step added.
AddedStep(e, n, c) ==
    /\ lastOp'.op = "addChild" /\ lastOp'.ok
    /\ nextChildOrder'[e] # nextChildOrder[e]
    /\ \E x \in children'[e] \ children[e] : x.name = n /\ x.child = c

\* A step in which e.removeChild(c) returned normally: the call is read off
\* the entry the step deleted.
RemovedStep(e, c) ==
    /\ lastOp'.op = "removeChild" /\ lastOp'.ok
    /\ \E x \in children[e] \ children'[e] : x.child = c

\* C5: when addChild(name, c) returns normally, c had no parent before the
\* call, and after it e.getChild(name) is c and c.parent is e; hence no
\* addChild of a child that has a parent returns normally, on any receiver.
C5_AddChildAttaches ==
    [][/\ (lastOp'.op = "addChild" /\ lastOp'.ok) =>
            \E e \in alloc, n \in Names, c \in alloc : AddedStep(e, n, c)
       /\ (lastOp'.op = "addChild" /\ lastOp'.ok) =>
            \A e \in alloc, n \in Names, c \in alloc :
               AddedStep(e, n, c) =>
                  /\ parent[c] = Null
                  /\ getChild(e, n)' = c
                  /\ parent'[c] = e]_vars

\* C5 witness: a child is attached and found under its name, and a second
\* addChild of an attached child has just thrown.
C5_Witness ==
    /\ lastOp.op = "addChild" /\ ~lastOp.ok
    /\ \E e \in alloc, n \in Names : getChild(e, n) # Null /\ parent[getChild(e, n)] = e

\* C6: an addChild that throws changes no field of any entity (children,
\* name index, order index, parent), and addChild throws only for a child
\* that has a parent.
C6_RejectedAddChangesNothing ==
    [][(lastOp'.op = "addChild" /\ ~lastOp'.ok) =>
          /\ UNCHANGED treeVars
          /\ \E c \in alloc : parent[c] # Null]_vars

\* C6 witness: an addChild has just thrown on a receiver that has children.
C6_Witness ==
    /\ lastOp.op = "addChild" /\ ~lastOp.ok
    /\ \E e \in alloc : children[e] # {} /\ nextChildOrder[e] > 0

\* C7: a removeChild that throws changes nothing; when removeChild(c) returns
\* normally, c.parent was the receiver before the call, and after it c.parent
\* is null and c is not among the receiver's children; hence removeChild of an
\* entity whose parent is not the receiver never returns normally.
C7_RemoveChild ==
    [][/\ (lastOp'.op = "removeChild" /\ ~lastOp'.ok) => UNCHANGED treeVars
       /\ (lastOp'.op = "removeChild" /\ lastOp'.ok) =>
            \E e \in alloc, c \in alloc : RemovedStep(e, c)
       /\ (lastOp'.op = "removeChild" /\ lastOp'.ok) =>
            \A e \in alloc, c \in alloc :
               RemovedStep(e, c) =>
                  /\ parent[c] = e
                  /\ parent'[c] = Null
                  /\ c \notin Kids(e)']_vars

\* C7 witness: a removeChild has just thrown and some entity that had a child
\* has none any more (the second of two removals).
C7_Witness ==
    /\ lastOp.op = "removeChild" /\ ~lastOp.ok
    /\ \E e \in alloc : nextChildOrder[e] > 0 /\ children[e] = {}

\* C8: c.parent is e exactly when c is among e's children, and a child has
\* one entry in its parent's children.
C8_ParentAgreesWithChildren ==
    /\ \A e \in Ent, c \in Ent : (parent[c] = e) <=> (c \in Kids(e))
    /\ \A e \in Ent : Cardinality(Kids(e)) = Cardinality(children[e])

\* C8 witness: after a removal, an entity is attached and another one, which
\* was attached before, is not.
C8_Witness ==
    /\ lastOp.op = "removeChild" /\ lastOp.ok
    /\ \E c \in alloc : parent[c] # Null
    /\ SumOrders(Ent) >= 2

\* C9: walkChildren visits the current children in the order of their most
\* recent insertion: a child that is added (for the first time or again) is
\* visited after all the children present, and a removal leaves the order of
\* the others as it was.
C9_WalkChildrenInsertionOrder ==
    [][/\ (lastOp'.op = "addChild" /\ lastOp'.ok) =>
            \A e \in alloc, n \in Names, c \in alloc :
               AddedStep(e, n, c) => ChildSeq(e)' = Append(ChildSeq(e), c)
       /\ (lastOp'.op = "removeChild" /\ lastOp'.ok) =>
            \A e \in alloc, c \in alloc :
               RemovedStep(e, c) => ChildSeq(e)' = Without(ChildSeq(e), c)]_vars

\* C9 witness: an entity has two children or more, and the one visited last
\* is one that was removed and added again after the others (it was
\* constructed before the child visited first).
C9_Witness ==
    \E e \in alloc :
        /\ Len(ChildSeq(e)) >= 2
        /\ nextChildOrder[e] > Len(ChildSeq(e))
        /\ ChildSeq(e)[Len(ChildSeq(e))] < ChildSeq(e)[1]

\* C10 as claimed: no two current children of a parent have the same name.
C10_SiblingNamesUnique ==
    \A e \in Ent : \A x \in children[e], y \in children[e] :
        x # y => x.name # y.name

\* C10 as amended: names are not kept unique; the name index holds, for each
\* name, at most one current child registered under that name, and when it
\* holds one it is the one most recently added under the name.
C10_NameIndexHoldsNewest ==
    \A e \in Ent, n \in Names :
        LET entry == childrenByName[e][n] IN
        entry # NoEntry =>
            /\ entry \in children[e]
            /\ entry.name = n
            /\ \A x \in children[e] : x.name = n => x.order <= entry.order

\* C10 witness: two current children of one parent have the same name and
\* getChild answers the later one.
C10_Witness ==
    \E e \in alloc : \E x \in children[e], y \in children[e] :
        /\ x.name = y.name /\ x.order < y.order
        /\ getChild(e, x.name) = y.child

\* The entity n parent links above e, Null when the links end before.
RECURSIVE Up(_, _)
Up(e, n) ==
    IF n = 0 \/ e = Null THEN e ELSE Up(parent[e], n - 1)

\* C34: the entity graph stays a tree: following the parent links from any
\* entity ends at an entity without parent, and the root has no parent.
C34_EntityGraphIsTree ==
    /\ parent[Root] = Null
    /\ \A e \in alloc : \E n \in 0 .. NumEnt : Up(e, n) # Null /\ parent[Up(e, n)] = Null

\* C35: the name lookup agrees with the children set: when exactly one
\* current child of e is registered under the name n, getChild(n) answers it,
\* and getChild never answers an entity that is not a current child of e.
C35_NameLookupConsistent ==
    \A e \in alloc, n \in Names :
        LET named == {x \in children[e] : x.name = n} IN
        /\ Cardinality(named) = 1 => \E x \in named : getChild(e, n) = x.child
        /\ getChild(e, n) # Null => getChild(e, n) \in Kids(e)

\* ------------------------------------------------------ properties, SpecWalk

\* e and every ancestor of e is active.
RECURSIVE ActiveWithAncestors(_)
ActiveWithAncestors(e) ==
    /\ active[e]
    /\ parent[e] = Null \/ ActiveWithAncestors(parent[e])

\* C3: Scene.walk(fn, true) never invokes fn on an inactive entity nor on a
\* descendant of an inactive entity: every entity the walk handed to fn is
\* active and so are all its ancestors.
C3_WalkSkipsInactive ==
    lastOp.op = "walk" =>
        \A i \in 1 .. Len(lastOp.out) : ActiveWithAncestors(lastOp.out[i])

\* e is the root or hangs below it.
RECURSIVE Reachable(_)
Reachable(e) ==
    \/ e = Root
    \/ parent[e] # Null /\ Reachable(parent[e])

\* The number of positions of the sequence s that hold x.
Occurrences(s, x) == Cardinality({i \in 1 .. Len(s) : s[i] = x})

\* C11: Scene.walk(fn) invokes fn on the root first, and on every active
\* entity that is reachable from the root through active ancestors exactly
\* once.
C11_WalkStartsAtRoot ==
    (lastOp.op = "walk" /\ active[Root]) =>
        /\ lastOp.out # <<>>
        /\ lastOp.out[1] = Root
        /\ \A e \in alloc :
              (Reachable(e) /\ ActiveWithAncestors(e)) => Occurrences(lastOp.out, e) = 1

\* ------------------------------------------------------ properties, SpecFind

\* The name e is registered under with its parent.
NameOf(e) == childrenByChild[parent[e]][e].name

\* The first entity of the sequence ents registered under the name n.
RECURSIVE FirstNamed(_, _)
FirstNamed(ents, n) ==
    IF ents = <<>> THEN Null
    ELSE IF NameOf(Head(ents)) = n THEN Head(ents)
    ELSE FirstNamed(Tail(ents), n)

\* C13 as stated: findObject(name) answers the first entity registered under
\* that name in depth-first, parent-before-children order from the root, and
\* nothing when no descendant has that name.
C13_FindObjectFirstDepthFirst ==
    lastOp.op = "findObject" =>
        lastOp.out[1] = FirstNamed(walk(FALSE), lastOp.name)

\* a is e or an ancestor of e.
RECURSIVE Above(_, _)
Above(a, e) == a = e \/ (parent[e] # Null /\ Above(a, parent[e]))

\* The name index of e or of an entity below e holds the name n.
Holds(e, n) == \E x \in alloc : Above(e, x) /\ getChild(x, n) # Null

\* C13 amended: findObject(name) answers an entity below the root that the
\* name index of its parent holds under that name; no entity above that parent
\* holds the name in its index, and no child inserted before an ancestor of the
\* answer holds the name in its subtree; it answers nothing exactly when no
\* name index of an entity of the scene holds the name.
C13_FindObjectIndexFirst ==
    lastOp.op = "findObject" =>
        LET n == lastOp.name
            r == lastOp.out[1]
        IN IF r = Null
           THEN ~Holds(Root, n)
           ELSE /\ parent[r] # Null
                /\ Above(Root, r)
                /\ getChild(parent[r], n) = r
                /\ \A a \in alloc :
                      (Above(a, parent[r]) /\ a # parent[r] /\ Above(Root, a))
                          => getChild(a, n) = Null
                /\ \A x \in alloc, y \in alloc :
                      ( /\ Above(Root, x) /\ x # Root /\ Above(x, parent[r])
                        /\ parent[y] = parent[x]
                        /\ childrenByChild[parent[y]][y].order
                              < childrenByChild[parent[x]][x].order )
                          => ~Holds(y, n)

\* C13 witness: findObject answered a direct child of the root although an
\* entity registered under the same name lies deeper and earlier in
\* depth-first order.
C13_Witness ==
    /\ lastOp.op = "findObject"
    /\ lastOp.out[1] # Null
    /\ parent[lastOp.out[1]] = Root
    /\ FirstNamed(walk(FALSE), lastOp.name) # Null
    /\ parent[FirstNamed(walk(FALSE), lastOp.name)] # Root

\* ------------------------------------------------- properties, SpecWalkAsync

\* The position in the log of the call on the entity whose chain the j-th call
\* came from; 0 when that entity is the root.
ParPos(j) ==
    IF \E i \in 1 .. (j - 1) : walkLog[i].e = walkLog[j].par
    THEN CHOOSE i \in 1 .. (j - 1) : walkLog[i].e = walkLog[j].par
    ELSE 0

\* The j-th call of the log is on an entity visited below the i-th one.
RECURSIVE Below(_, _)
Below(j, i) == j # 0 /\ (ParPos(j) = i \/ Below(ParPos(j), i))

\* The calls made below one entity follow its own call without a gap.
SubtreesContiguous ==
    \A i \in 1 .. Len(walkLog), j \in 1 .. Len(walkLog), k \in 1 .. Len(walkLog) :
        (i < j /\ j < k /\ Below(k, i)) => Below(j, i)

\* C12: Scene.walk is sequential and pre-order: fn is called on an entity only
\* when no earlier fn is pending, a child is visited only after fn has been
\* called on its parent and has settled, and everything visited below a child
\* is visited before the child's next sibling.
C12_WalkSequentialPreOrder ==
    [][Len(walkLog') > Len(walkLog) =>
         LET call == walkLog'[Len(walkLog')]
         IN /\ walkCalls = {}
            /\ walkLog' = Append(walkLog, call)
            /\ call.par # Root =>
                  /\ \E i \in 1 .. Len(walkLog) : walkLog[i].e = call.par
                  /\ call.par \notin walkCalls
            /\ SubtreesContiguous']_vars

\* C12 witness: the walk went down into a child's subtree, came back up and
\* called fn on the child's next sibling, which is pending.
C12_Witness ==
    /\ Len(walkLog) >= 3
    /\ walkLog[2].par = walkLog[1].e
    /\ walkLog[3].par = walkLog[1].par
    /\ walkCalls = {walkLog[3].e}

\* ---------------------------------------------------------- properties, Spec

\* C1: when the promise of Scene.refresh (of SceneMgrSystem.iterate) resolves
\* and main.iterate moves on to the next system, the queue of components that
\* wait for setup is empty and no setup pass started by this frame's refresh
\* is still pending.
C1_RefreshSettlesAtFixedPoint ==
    [][(pc = "frame" /\ systems[sys] = "sceneMgr" /\ sys' # sys)
         => /\ compDescr' = {}
            /\ \A i \in 1 .. Len(passes') : passes'[i].frame # frame]_vars

\* C2: a display or render call of a frame is issued only after the logic
\* system has run in that frame and every update call has settled.
C2_DisplayAfterLogic ==
    \A k \in calls :
        k.method \in {"display", "render"} =>
            /\ frameCount = frame
            /\ \A u \in calls : u.method # "update"

\* C4: setup is never called on a component before the promise of its create
\* has resolved.
C4_SetupAfterCreate ==
    \A c \in Comp : setupCalls[c] > 0 => created[c] = "done"

\* C4 witness: a setup has been called on one component while the create of
\* another one, attached by a setup or by a dynamic createChild, is pending.
C4_Witness ==
    \E c \in Comp, d \in Comp :
        /\ setupCalls[c] > 0
        /\ created[d] = "pending"
        /\ setupCalls[d] = 0
        /\ pc = "frame"

\* The component the step attaches in a createChild chain, NoComp for any
\* other step.
ChainAttached ==
    IF \E t \in Task : tasks[t].wait = NoComp /\ tasks'[t].wait # NoComp
    THEN tasks'[CHOOSE t \in Task : tasks[t].wait = NoComp /\ tasks'[t].wait # NoComp].wait
    ELSE NoComp

\* The step constructs a declared child in a createChild chain in progress.
ChainChild ==
    /\ alloc' # alloc
    /\ \E t \in Task : tasks[t] # IdleTask /\ tasks'[t] # tasks[t]

\* C14: when createChild attaches a component to a node, the create of every
\* component below the node and of every component the node already has has
\* resolved; and createChild never adds a declared child to a node that has a
\* component.
C14_ChildrenBeforeComponents ==
    [][/\ ChainAttached # NoComp =>
            \A d \in Comp :
               (owner[d] # Null /\ Above(owner'[ChainAttached], owner[d]))
                   => created[d] = "done"
       /\ ChainChild =>
            components[parent'[NewEntity]] = <<>>]_vars

\* C14 witness: during Scene.create the create of a node's component is
\* pending, and the node has a child whose component is created.
C14_Witness ==
    /\ pc = "load"
    /\ \E c \in Comp, d \in Comp :
          /\ created[c] = "pending" /\ created[d] = "done"
          /\ parent[owner[d]] = owner[c]

\* The [node name, component type] pairs of a description in the order
\* createChildren creates them.
RECURSIVE CreateOrder(_)
CreateOrder(nodes) ==
    IF nodes = <<>> THEN <<>>
    ELSE CreateOrder(Head(nodes).children)
           \o [i \in 1 .. Len(Head(nodes).components) |->
                 [name |-> Head(nodes).name, type |-> Head(nodes).components[i]]]
           \o CreateOrder(Tail(nodes))

\* The components constructed so far.
Constructed == {c \in Comp : owner[c] # Null}

\* C15: when the promise of Scene.create resolves and the loop is launched,
\* the create of every component has resolved, setup has been called on none,
\* and the queue holds exactly the components the description declares.
C15_CreateResolvesAfterAllCreated ==
    [][(pc = "load" /\ pc' = "frame") =>
          /\ \A c \in Constructed : created[c] = "done"
          /\ \A c \in Comp : setupCalls[c] = 0
          /\ compDescr = Constructed
          /\ \E d \in Descriptions :
                [c \in 1 .. Cardinality(Constructed) |->
                    [name |-> NameOf(owner[c]), type |-> ctype[c]]] = CreateOrder(d)]_vars

\* C15 witness: the loop has just been launched on a scene of two components,
\* both in the queue.
C15_Witness ==
    /\ pc = "frame" /\ frame = 1 /\ sys = 1 /\ stage = "start"
    /\ Cardinality(compDescr) = 2
    /\ \A c \in Comp : setupCalls[c] = 0

\* The components setup is called on in the step.
Called == {c \in Comp : setupCalls'[c] > setupCalls[c]}

\* C16: a drain pass calls setup, once, on every component that is in the
\* queue when the pass starts; setup is called only by the start of a pass, so
\* a component queued while a pass is in progress is not set up by that pass,
\* which never grows; and a pass that ends while the queue is not empty is
\* followed at once by a pass on what the queue holds then.
C16_PassSetsUpQueuedComponents ==
    [][/\ Called # {} =>
            /\ Called = compDescr'
            /\ \A c \in Called : setupCalls'[c] = setupCalls[c] + 1
            /\ passes' # <<>>
            /\ passes'[Len(passes')].pending = Called
            /\ \A j \in 1 .. (Len(passes') - 1) :
                  \E i \in 1 .. Len(passes) : passes'[j].pending \subseteq passes[i].pending
       /\ Called = {} =>
            /\ Len(passes') <= Len(passes)
            /\ \A j \in 1 .. Len(passes') :
                  \E i \in 1 .. Len(passes) : passes'[j].pending \subseteq passes[i].pending
       /\ compDescr' \ compDescr # {} => Called = {}
       /\ Len(passes') < Len(passes) => compDescr' = {}]_vars

\* C16 witness: a component was queued while the first pass was in progress;
\* setup has not been called on it by that pass but by the pass that followed.
C16_Witness ==
    \E i \in 1 .. Len(passes), c \in Comp, d \in Comp :
        /\ ~passes[i].awaited
        /\ d \in passes[i].pending
        /\ setupCalls[d] = 1
        /\ c \notin compDescr /\ setupCalls[c] = 1

\* The display (render) calls that are pending.
Pending(method) == {k \in calls : k.method = method}

\* The display (render) calls DisplaySystem.iterate has chained and not made.
Chained(method) == {i \in 1 .. Len(dispQ) : dispQ[i].method = method}

\* C19: while a render call is pending, no display call is pending and none is
\* still to be made in the iteration.
C19_DisplayBeforeRender ==
    Pending("render") # {} => (Pending("display") = {} /\ Chained("display") = {})

\* C19 witness: a render call is pending in an iteration that collected a
\* display component.
C19_Witness ==
    /\ Pending("render") # {}
    /\ DisplayList # <<>>
    /\ stage = "wait" /\ systems[sys] = "display"

C22_UpdatesIssuedThenAwaited ==
    [][/\ (\E k \in calls' \ calls : k.method = "update") =>
            /\ pc = "frame" /\ stage = "start" /\ systems[sys] = "logic"
            /\ calls = {}
            /\ calls' = {CallOf(LogicList[i].comp, "update") : i \in 1 .. Len(LogicList)}
       /\ (pc = "frame" /\ systems[sys] = "logic" /\ (pc' # pc \/ sys' # sys)) =>
            Pending("update")' = {}]_vars

\* C22 witness: of two updates issued together, the one issued second has
\* settled while the one issued first is pending.
C22_Witness ==
    /\ pc = "frame" /\ stage = "wait" /\ systems[sys] = "logic"
    /\ Len(LogicList) >= 2
    /\ calls = {CallOf(LogicList[1].comp, "update")}

\* ------------------------------------------------------ properties, SpecLive

\* C17: when every setup settles, the drain passes a refresh has started come
\* to an end, and when the last one ends the queue is empty.
C17_RefreshTerminates ==
    (passes # <<>>) ~> (passes = <<>> /\ compDescr = {})

\* C17 witness: the passes have come to an end after a pass that followed
\* another one in the same refresh, on a component a setup had created.
C17_Witness ==
    /\ passes = <<>> /\ compDescr = {}
    /\ \E c \in Comp, d \in Comp :
          c # d /\ setupCalls[c] > 0 /\ setupCalls[d] > 0 /\ frame = 1 /\ sys = 2

\* ------------------------------------------------------ properties, SpecLoop

\* A setup pass whose promise SceneMgrSystem.iterate waits for is in progress.
AwaitedPass == \E i \in 1 .. Len(passes) : passes[i].awaited

\* The promise the loop waits for has settled: no call of the system is
\* pending or still chained, and no pass is waited for.
Settled == calls = {} /\ dispQ = <<>> /\ ~AwaitedPass

\* C24: a system's iterate is called, and a frame is started, only when the
\* promise of what was called before has settled; the calls in flight are
\* calls of the system whose turn it is; a frame after the first starts only
\* from the wait for the display refresh, which begins only when the last
\* system has settled; and when every promise settles and the display keeps
\* refreshing, each frame is followed by the next.
C24_FramesDoNotOverlap ==
    /\ [][/\ (sys' # sys \/ frame' # frame) => Settled'
          /\ (pc # "raf" /\ pc' = "raf") => (systems[sys] = "logic" /\ Settled')
          /\ frame' # frame =>
                /\ frame' = frame + 1
                /\ pc = (IF frame = 0 THEN "load" ELSE "raf")
                /\ Settled]_vars
    /\ [](\A k \in calls :
             /\ pc = "frame"
             /\ k.method = "update" => systems[sys] = "logic"
             /\ k.method \in {"display", "render"} => systems[sys] = "display")
    /\ \A n \in 1 .. (MaxFrame - 1) : (frame = n) ~> (frame = n + 1)

\* C24 witness: the second frame has started while a setup pass that the
\* first frame's refresh started without waiting for it is still in progress.
C24_Witness ==
    /\ frame = 2 /\ pc = "frame"
    /\ \E i \in 1 .. Len(passes) : ~passes[i].awaited /\ passes[i].frame = 1

\* ---------------------------------------------------- properties, SpecReject

\* C18: once a setup called by a refresh has rejected, the frame is aborted,
\* no further frame is scheduled, and the component is still in the queue.
C18_SetupRejectionStopsLoop ==
    (lastOp.op = "setup" /\ ~lastOp.ok) =>
        /\ pc = "dead"
        /\ lastOp.out[1] \in compDescr

\* ------------------------------------------------ properties, SpecCallReject

\* The loop has stopped in a frame (not during the load of the scene).
StoppedInFrame == pc = "dead" /\ frame >= 1

\* C23: the step in which an update, a display or a render rejects stops the
\* loop and drops what was left of the display chain; once the loop has
\* stopped in a frame, it stays stopped: no system's iterate is called (the
\* system and its stage stay, no call is made, the frame counter of the logic
\* system stays) and no frame is scheduled.
C23_CallRejectionStopsLoop ==
    [][/\ (lastOp' # lastOp /\ ~lastOp'.ok /\ lastOp'.op \in {"update", "display", "render"}) =>
            /\ pc' = "dead"
            /\ dispQ' = <<>>
       /\ StoppedInFrame =>
            /\ pc' = "dead"
            /\ frame' = frame /\ sys' = sys /\ stage' = stage
            /\ frameCount' = frameCount
            /\ calls' \subseteq calls
            /\ dispQ' = <<>>]_vars

\* C23 witness: in the first frame a display call has rejected; the render
\* call that was chained after it has not been made, the logic system has not
\* run, and every other promise has settled.
C23_Witness ==
    /\ StoppedInFrame
    /\ lastOp.op = "display" /\ ~lastOp.ok
    /\ CameraList # <<>>
    /\ systems[sys] = "display" /\ frameCount = 0
    /\ calls = {} /\ passes = <<>>

\* ------------------------------------------------------ properties, SpecComp

AddResolves(c) == created[c] = "pending" /\ created'[c] = "done"

\* No type is twice among the keys of a component map.
OnePerType(e) ==
    \A i \in 1 .. Len(components[e]), j \in 1 .. Len(components[e]) :
        i # j => components[e][i].type # components[e][j].type

Stored(e, type) == {c \in Comp : owner[c] = e /\ ctype[c] = type}

\* The one of them constructed last (the pool is used in order), NoComp when
\* there is none.
Newest(e, type) ==
    IF Stored(e, type) = {} THEN NoComp
    ELSE CHOOSE c \in Stored(e, type) : \A d \in Stored(e, type) : d <= c

C29_UnknownTypeChangesNothing ==
    [][(lastOp' # lastOp /\ lastOp'.op = "addComponent" /\ lastOp'.type \notin Types) =>
          /\ ~lastOp'.ok
          /\ components' = components
          /\ compDescr' = compDescr]_vars

\* ------------------------------------------------------- properties, SpecRef

\* The live component the descriptor of c names: constructed and created, of
\* the type named, on the entity registered under the name with the parent of
\* c's owner.  NoComp when there is none.
Named(c) ==
    LET tokens == RefTokens(c)
        hits == {d \in Comp : /\ owner[d] \in alloc \ {Root}
                              /\ parent[owner[d]] = parent[owner[c]]
                              /\ NameOf(owner[d]) = tokens[1]
                              /\ ctype[d] = tokens[2]
                              /\ created[d] = "done"}
    IN IF hits = {} THEN NoComp ELSE CHOOSE d \in hits : TRUE

\* C30: with two components on sibling entities that name each other in their
\* descriptors, declared in either order, every findComponent made in a setup
\* answers the live component of the sibling, and the first refresh after
\* Scene.create calls the setup of both.
C30_SiblingLookupsResolve ==
    [][(lastOp' # lastOp /\ lastOp'.op = "setup") =>
          /\ \A c \in DOMAIN lastOp'.found :
                /\ lastOp'.found[c] # NoComp
                /\ lastOp'.found[c] # c
                /\ lastOp'.found[c] = Named(c)
          /\ frame = 1 => DOMAIN lastOp'.found = {c \in Comp : owner[c] # Null}]_vars

\* C30 witness: b is declared first; in the setups the first refresh calls,
\* the Camera of b has found the Sprite of a, constructed after it, and the
\* Sprite of a has found the Camera of b.
C30_Witness ==
    /\ lastOp.op = "setup"
    /\ DOMAIN lastOp.found = {1, 2}
    /\ ctype[1] = "Camera" /\ NameOf(owner[1]) = "b"
    /\ ctype[2] = "Sprite" /\ NameOf(owner[2]) = "a"
    /\ lastOp.found[1] = 2 /\ lastOp.found[2] = 1

\* C32: the setup of a component is called at most once over the whole run,
\* also when the refresh of the next frame starts while setups called by an
\* earlier pass are pending.
C32_SetupCalledOnce == \A c \in Comp : setupCalls[c] <= 1

\* The setup of c has been called and has settled.
SetUp(c) == created[c] = "done" /\ setupCalls[c] > 0 /\ c \notin compDescr

\* C33: no update, display or render is called on a component whose setup has
\* not settled, the components constructed during a setup or by an update
\* included.
C33_CallsOnlyAfterSetup ==
    [][\A k \in calls' \ calls : SetUp(k.comp)]_vars

\* ----------------------------------------------------- properties, SpecLayer

\* d is below e in the tree.
RECURSIVE Under(_, _)
Under(d, e) == parent[d] # Null /\ (parent[d] = e \/ Under(parent[d], e))

\* d, below e, is active and so is every entity between d and e.
RECURSIVE ActiveBelow(_, _)
ActiveBelow(d, e) == active[d] /\ (parent[d] = e \/ ActiveBelow(parent[d], e))

\* c is an enabled sprite that its owner's map holds.
LiveSprite(c) ==
    /\ owner[c] # Null
    /\ isSpriteComponent(ctype[c])
    /\ getComponent(owner[c], ctype[c]) = c
    /\ enabled[c]

\* The components the last call of listSprites answered.
Listed == {lastOp.out[i] : i \in 1 .. Len(lastOp.out)}

\* Depth first, children in insertion order: a is met before b when b is below
\* a, or when the branches that lead to them part at two siblings of which
\* the one on a's side was added first.
DepthFirstBefore(a, b) ==
    \/ Under(b, a)
    \/ \E x \in alloc, y \in alloc :
          /\ x = a \/ Under(a, x)
          /\ y = b \/ Under(b, y)
          /\ x # y /\ parent[x] # Null /\ parent[x] = parent[y]
          /\ childrenByChild[parent[x]][x].order < childrenByChild[parent[y]][y].order

\* C36: listSprites answers the sprites of the layer's owner itself together
\* with those of its descendants: every enabled sprite of the owner, when it
\* is active, and of every descendant that is active with all entities
\* between it and the owner, is in the list.
C36_ListsOwnerAndDescendants ==
    lastOp.op = "listSprites" =>
        \A c \in Comp :
            (/\ LiveSprite(c)
             /\ \/ owner[c] = lastOp.on /\ active[lastOp.on]
                \/ Under(owner[c], lastOp.on) /\ ActiveBelow(owner[c], lastOp.on))
            => c \in Listed

\* C37: listSprites answers no disabled sprite, and no sprite of an entity
\* below the layer's owner that is inactive or below an inactive one; the
\* remaining sprites of the descendants are all listed, once each, depth first
\* with children in insertion order.
C37_ListSkipsHiddenInOrder ==
    lastOp.op = "listSprites" =>
        /\ \A c \in Listed :
              /\ LiveSprite(c)
              /\ Under(owner[c], lastOp.on)
              /\ ActiveBelow(owner[c], lastOp.on)
        /\ \A c \in Comp :
              (LiveSprite(c) /\ Under(owner[c], lastOp.on) /\ ActiveBelow(owner[c], lastOp.on))
              => c \in Listed
        /\ \A i \in 1 .. Len(lastOp.out), j \in 1 .. Len(lastOp.out) :
              i < j => /\ lastOp.out[i] # lastOp.out[j]
                       /\ DepthFirstBefore(owner[lastOp.out[i]], owner[lastOp.out[j]])

\* C37 witness: listSprites has answered the one sprite of a grandchild of the
\* layer's owner, and has left out an enabled sprite of an entity below the
\* owner that is inactive or below an inactive one.
C37_Witness ==
    /\ lastOp.op = "listSprites"
    /\ \E c \in Comp, d \in Comp :
          /\ lastOp.out = <<c>>
          /\ parent[owner[c]] # lastOp.on
          /\ LiveSprite(d) /\ Under(owner[d], lastOp.on)
          /\ ~ActiveBelow(owner[d], lastOp.on)

\* --------------------------------------------------- properties, SpecTrigger

\* C38: trigger calls every registered handler once, with the parameters of
\* the trigger followed by the handler's own context only (nothing, for a
\* context that is false, is accepted too), so that onEvent leaves each target
\* with the flag declared for it (the one of the handler registered last, when
\* a target is registered twice).
C38_HandlersGetOwnContext ==
    lastOp.op = "onEvent" =>
        /\ Len(lastOp.out) = Len(handlers)
        /\ \A i \in 1 .. Len(handlers) :
              /\ lastOp.out[i].instance = handlers[i].instance
              /\ \/ lastOp.out[i].args = <<handlers[i].context>>
                 \/ ~handlers[i].context /\ lastOp.out[i].args = <<>>
              /\ (\A j \in (i + 1) .. Len(handlers) : handlers[j].instance # handlers[i].instance)
                 => enabled[handlers[i].instance] = handlers[i].context

\* ------------------------------------------------------ properties, SpecDraw

\* C40: the index data drawn for n sprites has 6n entries, and the six
\* entries of sprite i are 4i, 4i+1, 4i+2, 4i+2, 4i+3, 4i.
C40_IndicesOfOwnVertices ==
    lastOp.op = "display" /\ lastOp.ok =>
        /\ Len(lastOp.out) = 6 * lastOp.sprites
        /\ \A i \in 0 .. lastOp.sprites - 1 :
              SubSeq(lastOp.out, 6 * i + 1, 6 * i + 6) =
                  <<4 * i, 4 * i + 1, 4 * i + 2, 4 * i + 2, 4 * i + 3, 4 * i>>

\* The same for the typed array of dist/merged.js alone.
DistIndicesOfOwnVertices == lastOp.op = "display" /\ lastOp.bytes = 2 => C40_IndicesOfOwnVertices

\* ------------------------------------------------------ properties, SpecGame

\* C39: the win event of the referee is triggered at most once per game.
C39_WinTriggeredOnce == winTriggers <= 1

\* ---------------------------------------------------- properties, SpecDetach

\* C31: once removeChild(e) has returned, no setup, update, display or render
\* is called on a component of e or of a descendant of e: every component such
\* a call is made on belongs to an entity reachable from the root at the time
\* of the call, the updates that follow a detaching update in the list of an
\* iteration included.
C31_DetachedNeverReached ==
    [][/\ (lastOp' # lastOp /\ lastOp'.op = "update") =>
             \A c \in Comp, j \in 1 .. Len(lastOp'.out) :
                lastOp'.out[j] = c =>
                   IF j > lastOp'.by /\ lastOp'.by > 0
                   THEN Reachable(owner[c])'
                   ELSE Reachable(owner[c])
       /\ \A c \in Comp : setupCalls'[c] > setupCalls[c] => Reachable(owner[c])
       /\ \A k \in calls' \ calls :
             k.method \in {"display", "render"} => Reachable(owner[k.comp])]_vars

\* ----------------------------------------------------- properties, SpecClock

\* C25: each call of loop sets delta to the time between its timestamp and the
\* timestamp of the call before (0 for the first call), brought into the
\* interval from 0 to 100 ms: 0 when the difference is negative, 100 when it
\* is above 100, the difference otherwise; and every system's iterate of the
\* frame is given that delta, which is never negative and never above 100.
C25_DeltaClamped ==
    [][/\ frame' # frame =>
            LET elapsed == lastTime' - lastTime
            IN /\ elapsed < 0 => delta' = 0
               /\ elapsed > MaxDelta => delta' = MaxDelta
               /\ (0 <= elapsed /\ elapsed <= MaxDelta) => delta' = elapsed
       /\ (lastOp' # lastOp /\ lastOp'.op = "iterate") =>
            /\ lastOp'.dT = delta
            /\ lastOp'.dT >= 0
            /\ lastOp'.dT <= MaxDelta
       /\ frame' = frame => delta' = delta]_vars

\* C25 witness: the second call of loop came with a timestamp above the
\* bound (the first has timestamp 0), and the logic system has been given the
\* bound, not the time elapsed.
C25_Witness ==
    /\ lastOp.op = "iterate" /\ lastOp.system = "logic"
    /\ frame = 2
    /\ lastTime > MaxDelta
    /\ lastOp.dT = MaxDelta

\* ----------------------------------------------------- properties, SpecLogic

\* The entities Scene.walk(fn) calls fn on.
Visited == {walk(TRUE)[i] : i \in 1 .. Len(walk(TRUE))}

\* c is the component its owner holds under c's type.
Held(c) == owner[c] # Null /\ getComponent(owner[c], ctype[c]) = c

\* c is a logic component, enabled, that a visited entity holds.
Collectable(c) ==
    /\ Held(c)
    /\ owner[c] \in Visited
    /\ isLogicComponent(ctype[c])
    /\ enabled[c]

\* The place of entity e in the walk, and of component c in its owner's map.
WalkPos(e) == CHOOSE i \in 1 .. Len(walk(TRUE)) : walk(TRUE)[i] = e
MapPos(c) == CHOOSE i \in 1 .. Len(components[owner[c]]) : components[owner[c]][i].comp = c

\* The step is a logic iteration.
LogicStep == lastOp'.op = "update" /\ frameCount' # frameCount

\* C21: a logic iteration calls update exactly on the components that were
\* collectable when the walk ran (enabled logic components held by visited
\* entities), whatever the updates called before did to the enabled flags: each
\* of them once, in walk order (entities in visit order, components in map
\* order), all with the same timing value; the calls in flight are these.
C21_UpdatesTheSnapshot ==
    [][LogicStep =>
         LET out == lastOp'.out
         IN /\ \A c \in Comp :
                  Collectable(c) <=> (\E i \in 1 .. Len(out) : out[i].comp = c)
            /\ \A i \in 1 .. Len(out), j \in 1 .. Len(out) :
                  i < j =>
                     /\ out[i].comp # out[j].comp
                     /\ out[i].timing = out[j].timing
                     /\ \/ WalkPos(owner[out[i].comp]) < WalkPos(owner[out[j].comp])
                        \/ /\ owner[out[i].comp] = owner[out[j].comp]
                           /\ MapPos(out[i].comp) < MapPos(out[j].comp)
            /\ calls' = {CallOf(out[i].comp, "update") : i \in 1 .. Len(out)}]_vars

\* C21 witness: the update of a component is in flight although an update
\* called before it in the same iteration has disabled the component.
C21_Witness ==
    /\ lastOp.op = "update"
    /\ stage = "wait" /\ systems[sys] = "logic"
    /\ \E i \in 2 .. Len(lastOp.out) :
          /\ ~enabled[lastOp.out[i].comp]
          /\ CallOf(lastOp.out[i].comp, "update") \in calls

\* The step calls LogicSystem.iterate.
LogicCalled ==
    /\ pc = "frame" /\ stage = "start" /\ systems[sys] = "logic"
    /\ (stage' # stage \/ sys' # sys \/ pc' # pc)

\* C26: the counter changes only when LogicSystem.iterate is called, and then
\* by one; the updates of the iteration of the n-th frame are all given the
\* counter n - 1, so 0 in the first iteration and one more in each iteration
\* after it.
C26_FrameCounterAscends ==
    [][/\ LogicCalled =>
            /\ frameCount' = frameCount + 1
            /\ frameCount = frame - 1
            /\ lastOp'.op = "update"
            /\ \A i \in 1 .. Len(lastOp'.out) : lastOp'.out[i].timing.frame = frame - 1
       /\ frameCount' # frameCount => LogicCalled]_vars

\* C26 witness: in the second iteration two updates are in flight, both given
\* the counter 1.
C26_Witness ==
    /\ lastOp.op = "update"
    /\ stage = "wait" /\ systems[sys] = "logic"
    /\ Len(lastOp.out) >= 2
    /\ lastOp.out[1].timing.frame = 1
    /\ Cardinality(calls) = 2

====
